---- MODULE Spec2Model ----
(***************************************************************************)
(* A model of the hebi register VM (src/src/vm/thread.rs): the call-frame  *)
(* stack over one shared value stack, the calling convention (op_call,     *)
(* op_call0, Thread::call, op_return), class instantiation (init_class),   *)
(* and module import with cycle detection (load_module).                   *)
(*                                                                         *)
(* The bytecode a frame executes is an input: it is produced one           *)
(* statement at a time (Stmts), each statement being the instruction       *)
(* sequence the emitter lowers a source statement to, and `code` holds     *)
(* the instructions of the current statement that are still to run.        *)
(* Every opcode handler is one action.  Handlers that re-enter the         *)
(* dispatch loop (init_class, load_module) are continued by the op_return  *)
(* that ends the nested run; `native` is the stack of such suspended       *)
(* handlers.  An error (hebi::fail!) is propagated through `native` one    *)
(* suspended handler at a time.                                            *)
(***************************************************************************)
EXTENDS Integers, Sequences, FiniteSets, TLC

VARIABLES
  call_frames,  \* Thread.call_frames: Seq(Frame)
  stack,        \* Thread.stack: Seq(Value)
  stack_base,   \* Thread.stack_base
  acc,          \* Thread.acc
  pc,           \* the dispatch loop's program counter
  registry,     \* Global.module_registry: path -> module id (0: absent)
  next_id,      \* ModuleRegistry::next_module_id
  visited,      \* Global.module_visited_set
  heap,         \* the ClassInstance objects allocated so far
  native,       \* suspended handlers waiting for a nested run to return
  status,       \* "idle" | "run" | "unwind" | "error" | "panic"
  code,         \* rest of the statement being executed by the current frame
  root_runs,    \* history: how often each module's root function was entered
  program,      \* input: which family of programs the thread executes
  functions,    \* the Function objects that own a non-empty upvalue List
  em,           \* the bytecode emitter: two runs over the same module
  globals,      \* Global.globals: name -> value (Absent: never stored)
  module_vars,  \* Module.module_vars of the module created with each id
  lst,          \* a List under an indexed read or write, and its outcome
  conv,         \* an integer of the host on its way into a Value and back
  indent,       \* the parser's IndentStack
  ev            \* history: the operation performed by the last step

vars == <<call_frames, stack, stack_base, acc, pc, registry, next_id, visited,
          heap, native, status, code, root_runs, program, functions, em,
          globals, module_vars, lst, conv, indent, ev>>

-----------------------------------------------------------------------------
(* Bounds of the model.                                                    *)

MaxDepth == 3        \* call frames alive at once
MaxPc == 7           \* instructions one frame executes before it returns
MaxLogic == 8        \* instructions of a frame that prints `a ?? b`
MaxModPc == 4        \* instructions of a frame that uses module variables
MaxArgs == 2         \* positional arguments of one call
MaxInstances == 1    \* class instances allocated
MaxModuleId == 3     \* module ids handed out by next_module_id
MaxChain == 2        \* field or index accesses chained in one expression
MaxFunctions == 2    \* Function objects created with captured values

Paths == {"a", "b"}
\* the names of the globals the programs load and store
GlobalNames == {"f", "n", "undefined"}
FieldNames == {"x", "y"}

-----------------------------------------------------------------------------
(* Values.  Every value is a record of the same shape; `a` and `b` hold    *)
(* the payload (an integer, an object id, or receiver and function), and   *)
(* `c` the class of a ClassProxy (0 where there is none).                  *)

None == [t |-> "none", a |-> 0, b |-> 0, c |-> 0]
Absent == [t |-> "absent", a |-> 0, b |-> 0, c |-> 0]
IntV(k) == [t |-> "int", a |-> k, b |-> 0, c |-> 0]
Fn(f, m) == [t |-> "fn", a |-> f, b |-> m, c |-> 0]
Class(c) == [t |-> "class", a |-> c, b |-> 0, c |-> 0]
Inst(i) == [t |-> "inst", a |-> i, b |-> 0, c |-> 0]
Method(i, f) == [t |-> "method", a |-> i, b |-> f, c |-> 0]
Module(id) == [t |-> "module", a |-> id, b |-> 0, c |-> 0]
\* a Function whose upvalue List is functions[k].upvalues (Fn: the empty
\* List)
Closure(f, m, k) == [t |-> "fn", a |-> f, b |-> m, c |-> k]
\* ClassProxy { this, class }
Proxy(i, c) == [t |-> "proxy", a |-> i, b |-> 0, c |-> c]
\* ClassMethod::new(this, function): `this` is an instance or a proxy
ClassMethod(this, function) ==
  [t |-> "method", a |-> this.a, b |-> function.a, c |-> this.c]
Bool(b) == [t |-> "bool", a |-> IF b THEN 1 ELSE 0, b |-> 0, c |-> 0]

\* a Table and a String object (the k-th of KeyNames)
\* Module::new: the table of a module's variables, one per declared name
NumModuleVars == 1
NewModuleVars == [i \in 1..NumModuleVars |-> None]
Table(id) == [t |-> "table", a |-> id, b |-> 0, c |-> 0]
Str(k) == [t |-> "str", a |-> k, b |-> 0, c |-> 0]
\* what println! writes after its arguments
Newline == [t |-> "newline", a |-> 0, b |-> 0, c |-> 0]
\* ClassMethod::this()
MethodThis(m) == IF m.c = 0 THEN Inst(m.a) ELSE Proxy(m.a, m.c)

IsObject(v) == v.t \notin {"none", "int"}

\* Option<T>: <<>> is None, <<x>> is Some(x)
Some(x) == <<x>>
Last(s) == s[Len(s)]
Front(s) == SubSeq(s, 1, Len(s) - 1)

-----------------------------------------------------------------------------
(* The functions and classes of the programs under test.                   *)
(*   0: the root function of a module                                      *)
(*   1: fn f(a, b=10)       2: fn g(a, *rest)                              *)
(*   3: fn test(self)       4: fn init(self, v=10)                         *)
(*   5: fn h(a)                                                            *)
(*   class 1 (T): x = 10, test          -- no init                         *)
(*   class 2 (U): init(self, v=10), test                                   *)
(*   9: fn b(), declares v  10: fn c(), captures v for d                   *)
(*   11: fn d(), reads and writes v                                        *)
(*   12: fn g(), reads and writes globals and module variables             *)
(* and the classes of the inheritance test:                                *)
(*   class 3 (A): x = 0, test = fn 6                                       *)
(*   class 4 (B(A)): x = 1, test = fn 7 (calls super.test())               *)
(*   class 5 (C(B)): x = 2, test = fn 8 (calls super.test())               *)
(*   class 6 (D(B)): no member of its own                                  *)

RootFn == 0
FnIds == {1, 2, 3, 4, 5, 6, 7, 8, 9, 10, 11, 12}
ClassIds == {1, 2, 3, 4, 5, 6}

\* positional parameters in declaration order: TRUE when it has a default
FnPos(f) ==
  CASE f = 1 -> <<FALSE, TRUE>>
    [] f = 2 -> <<FALSE>>
    [] f = 3 -> <<FALSE>>
    [] f = 4 -> <<FALSE, TRUE>>
    [] f = 5 -> <<FALSE>>
    [] f \in {6, 7, 8} -> <<FALSE>>
    [] OTHER -> <<>>

\* `*rest` present (a module root accepts any number: max is None)
FnArgv(f) == f \in {RootFn, 2}

\* the first positional parameter is `self`
FnHasSelf(f) == f \in {3, 4, 6, 7, 8}

ClassInit(c) == IF c = 2 THEN Some(4) ELSE <<>>

\* ClassType.parent, as op_make_class_derived sets it (0: no parent)
ClassParent(c) ==
  CASE c = 4 -> 3
    [] c = 5 -> 4
    [] c = 6 -> 4
    [] OTHER -> 0

\* FunctionDescriptor.upvalues: Upvalue::Register(r) captures register r
\* of the frame that runs MakeFn, Upvalue::Upvalue(i) its i-th upvalue
FnUpvalues(f) ==
  CASE f = 10 -> <<[register |-> TRUE, index |-> 1]>>
    [] f = 11 -> <<[register |-> FALSE, index |-> 0]>>
    [] OTHER -> <<>>

\* the class whose body declares the method
FnClass(f) ==
  CASE f = 3 -> 1
    [] f = 4 -> 2
    [] f = 6 -> 3
    [] f = 7 -> 4
    [] f = 8 -> 5
    [] OTHER -> 0

\* ClassType.fields: a derived class starts from a clone of its parent's
ClassDefaults(c) ==
  [n \in FieldNames |->
     IF n # "x" THEN Absent
     ELSE CASE c = 1 -> IntV(10)
            [] c = 3 -> IntV(0)
            [] c \in {4, 6} -> IntV(1)
            [] c = 5 -> IntV(2)
            [] OTHER -> Absent]

\* ClassType.methods: the methods the class body declares
ClassMethods(c) ==
  [n \in {"test", "init"} |->
     IF n = "init" THEN ClassInit(c)
     ELSE CASE c \in {1, 2} -> Some(3)
            [] c = 3 -> Some(6)
            [] c = 4 -> Some(7)
            [] c = 5 -> Some(8)
            [] OTHER -> <<>>]

\* method lookup on a class: its own methods, then its parents'
RECURSIVE ClassLookup(_, _)
ClassLookup(c, name) ==
  IF c = 0 \/ name \notin {"test", "init"} THEN <<>>
  ELSE IF ClassMethods(c)[name] # <<>>
       THEN Some(Fn(ClassMethods(c)[name][1], 0))
       ELSE ClassLookup(ClassParent(c), name)

\* The tables of the field and index tests:
\*   1: {}   2: { a: 10 }   3: { a: {} }   4: { a: { b: 10 } }   5: { b: 10 }
KeyNames == <<"a", "b">>
TableIds == {1, 2, 3, 4}
TableEntries(id) ==
  [n \in {"a", "b"} |->
     CASE id = 2 /\ n = "a" -> IntV(10)
       [] id = 3 /\ n = "a" -> Table(1)
       [] id = 4 /\ n = "a" -> Table(5)
       [] id = 5 /\ n = "b" -> IntV(10)
       [] OTHER -> Absent]

-----------------------------------------------------------------------------
(* Params, as computed by the emitter for a function statement.            *)

\* min that counts the parameters with a default as required
ParamsMin_all(pos) == Len(pos)

\* min = number of positional parameters without defaults
ParamsMin(pos) == Cardinality({i \in DOMAIN pos : ~pos[i]})

\* max = number of positional parameters, or None when `argv` exists
ParamsMax(pos, argv) == IF argv THEN <<>> ELSE Some(Len(pos))

Params(f) ==
  [min |-> ParamsMin(FnPos(f)),
   max |-> ParamsMax(FnPos(f), FnArgv(f)),
   has_self |-> FnHasSelf(f)]

\* min <= provided <= max; a call through a bound method does not count
\* the `self` parameter the receiver fills
check_args(params, has_implicit_receiver, n) ==
  LET adj == IF has_implicit_receiver /\ params.has_self THEN 1 ELSE 0
  IN /\ n >= params.min - adj
     /\ (params.max = <<>> \/ n <= params.max[1] - adj)

\* Registers of a frame: 0 (`self`), one per positional parameter, then the
\* temporaries a statement uses: a local X, a callee C, MaxArgs arguments.
LocalX(f) == 1 + Len(FnPos(f))
CalleeC(f) == LocalX(f) + 1
FrameSize(f) == CalleeC(f) + 1 + MaxArgs

-----------------------------------------------------------------------------
(* The value stack (a List) and registers.                                 *)

\* List::extend(n): grow to length n with none
Extend(stk, n) ==
  IF Len(stk) >= n THEN stk
  ELSE stk \o [j \in 1..(n - Len(stk)) |-> None]

\* List::truncate(n)
Truncate(stk, n) == IF n >= Len(stk) THEN stk ELSE SubSeq(stk, 1, n)

get_register(stk, base, r) == stk[base + r + 1]
set_register(stk, base, r, v) == [stk EXCEPT ![base + r + 1] = v]

-----------------------------------------------------------------------------
(* Bytecode.  One instruction is [op, r, n, v, s]: a register, a count or  *)
(* descriptor index, a constant value, a name.                             *)

Ins(op, r, n, v, s) == [op |-> op, r |-> r, n |-> n, v |-> v, s |-> s]

\* one positional argument: its value into the accumulator, then Store
ArgCode(c, n) ==
  [j \in 1..(2 * n) |->
     IF j % 2 = 1 THEN Ins("LoadConst", 0, 0, IntV((j + 1) \div 2), "")
     ELSE Ins("Store", c + (j \div 2), 0, None, "")]

\* a call expression: callee, arguments into consecutive registers, op
emit_call_expr(target, c, n) ==
  IF n = 0 THEN target \o <<Ins("Call0", 0, 0, None, "")>>
  ELSE target \o <<Ins("Store", c, 0, None, "")>> \o ArgCode(c, n)
              \o <<Ins("Call", c, n, None, "")>>

\* expressions a call's target is lowered from
MakeFnT(g) == <<Ins("MakeFn", 0, g, None, "")>>
MakeClassT(c) == <<Ins("MakeClass", 0, c, None, "")>>
FieldT(f) == <<Ins("Load", LocalX(f), 0, None, ""),
               Ins("LoadField", 0, 0, None, "test")>>

CallStmts(f, targets, counts) ==
  {emit_call_expr(t, CalleeC(f), n) : t \in targets, n \in counts}

StoreX(f) == <<Ins("Store", LocalX(f), 0, None, "")>>
LoadParam == <<Ins("Load", 1, 0, None, "")>>
LoadSelfStmt == <<Ins("LoadSelf", 0, 0, None, "")>>
LoadUndefined == <<Ins("LoadGlobal", 0, 0, None, "undefined")>>
StoreFieldStmts(f) ==
  {<<Ins("LoadConst", 0, 0, IntV(7), ""),
     Ins("StoreField", LocalX(f), 0, None, n)>> : n \in FieldNames}
ImportStmts(f) == {<<Ins("Import", LocalX(f), 0, None, p)>> : p \in Paths}

RetStmt == <<Ins("Ret", 0, 0, None, "")>>

\* `e.name`: LoadFieldOpt inside an optional expression, else LoadField
emit_get_field_expr(target, is_in_opt_expr, name) ==
  target \o <<Ins(IF is_in_opt_expr THEN "LoadFieldOpt" ELSE "LoadField",
                  0, 0, None, name)>>

\* `e[key]`: the object into a fresh register, the key into the accumulator
emit_get_index_expr(target, object, is_in_opt_expr, key) ==
  target \o <<Ins("Store", object, 0, None, ""),
              Ins("LoadConst", 0, 0, Str(key), ""),
              Ins(IF is_in_opt_expr THEN "LoadIndexOpt" ELSE "LoadIndex",
                  object, 0, None, "")>>

\* `e.n1.n2...` and `e[k1][k2]...`; the outermost index expression
\* allocates its register first
RECURSIVE FieldChain(_, _, _)
FieldChain(target, opt, names) ==
  IF names = <<>> THEN target
  ELSE emit_get_field_expr(FieldChain(target, opt, Front(names)), opt,
                           Last(names))
RECURSIVE IndexChain(_, _, _, _)
IndexChain(target, object, opt, keys) ==
  IF keys = <<>> THEN target
  ELSE emit_get_index_expr(IndexChain(target, object + 1, opt, Front(keys)),
                           object, opt, Last(keys))

\* the chains of the tests: .a, .a.b, .a.b.b, ...
Chains == {[j \in 1..n |-> IF j = 1 THEN 1 ELSE 2] : n \in 1..MaxChain}
ChainNames(ch) == [j \in DOMAIN ch |-> KeyNames[ch[j]]]

\* `v := {..}`, `v := none`
LetStmts(f) ==
  {<<Ins("LoadConst", 0, 0, v, ""), Ins("Store", LocalX(f), 0, None, "")>> :
     v \in {Table(id) : id \in TableIds} \cup {None}}
LoadX(f) == <<Ins("Load", LocalX(f), 0, None, "")>>
AccessTargets(f) ==
  {LoadX(f)} \cup {<<Ins("LoadConst", 0, 0, Table(id), "")>> : id \in TableIds}
AccessStmts(f) ==
  {FieldChain(t, opt, ChainNames(ch)) :
     t \in AccessTargets(f), opt \in BOOLEAN, ch \in Chains}
  \cup {IndexChain(t, CalleeC(f), opt, ch) :
          t \in AccessTargets(f), opt \in BOOLEAN, ch \in Chains}

\* `print e1, .., en`: the values into consecutive registers, then PrintN;
\* `print e`: the value into the accumulator, then Print
PrintValues == {IntV(1), None}
PrintStmts(f) ==
  {[j \in 1..(2 * n + 1) |->
      IF j = 2 * n + 1 THEN Ins("PrintN", CalleeC(f), n, None, "")
      ELSE IF j = 1 THEN Ins("LoadConst", 0, 0, v, "")
      ELSE IF j % 2 = 1 THEN Ins("LoadConst", 0, 0, IntV(10), "")
      ELSE Ins("Store", CalleeC(f) + (j \div 2) - 1, 0, None, "")] :
     n \in 2..MaxArgs, v \in PrintValues}
  \cup {<<Ins("LoadConst", 0, 0, v, ""), Ins("Print", 0, 0, None, "")>> :
          v \in PrintValues}

\* `v := 10`, `return v` / `v = 7` on a captured v
StoreV(f) == <<Ins("LoadConst", 0, 0, IntV(10), ""),
               Ins("Store", LocalX(f), 0, None, "")>>
\* `g()()`: the closure a function returns, called at once
CallResult(g) == MakeFnT(g) \o <<Ins("Call0", 0, 0, None, ""),
                                 Ins("Call0", 0, 0, None, "")>>
UpvalueStmts ==
  {<<Ins("LoadUpvalue", 0, 0, None, "")>>,
   <<Ins("LoadConst", 0, 0, IntV(7), ""),
     Ins("StoreUpvalue", 0, 0, None, "")>>}

\* `super.test()`, `self.x`, `x := K().test`, `x()`, `K.test`; `super` in a
\* method of a class without a parent and outside every method
SuperCall == <<Ins("LoadSuper", 0, 0, None, ""),
               Ins("LoadField", 0, 0, None, "test"),
               Ins("Call0", 0, 0, None, "")>>
LoadSuperStmt == <<Ins("LoadSuper", 0, 0, None, "")>>
SelfField == <<Ins("LoadSelf", 0, 0, None, ""),
               Ins("LoadField", 0, 0, None, "x")>>
BindStmts(f, classes) ==
  {MakeClassT(c) \o <<Ins("Call0", 0, 0, None, ""),
                      Ins("LoadField", 0, 0, None, "test"),
                      Ins("Store", LocalX(f), 0, None, "")>> : c \in classes}
CallX(f) == <<Ins("Load", LocalX(f), 0, None, ""),
              Ins("Call0", 0, 0, None, "")>>
StaticField(c) == MakeClassT(c) \o <<Ins("LoadField", 0, 0, None, "test")>>

\* `n = v`, `print n`, `fn g(): ..` and `g()` on globals
GlobalValues == {IntV(1), IntV(2)}
StoreGlobalStmts ==
  {<<Ins("LoadConst", 0, 0, v, ""), Ins("StoreGlobal", 0, 0, None, "n")>> :
     v \in GlobalValues}
LoadGlobalStmt == <<Ins("LoadGlobal", 0, 0, None, "n"),
                    Ins("Print", 0, 0, None, "")>>
DefG == MakeFnT(12) \o <<Ins("StoreGlobal", 0, 0, None, "f")>>
CallG == <<Ins("LoadGlobal", 0, 0, None, "f"), Ins("Call0", 0, 0, None, "")>>

\* a module's root: `v`, `fn g(): ..` into the global f, `f()`, a use of
\* an undefined global; g: `v = 2`, `v`
StoreModuleVarStmt ==
  <<Ins("LoadConst", 0, 0, IntV(2), ""), Ins("StoreModuleVar", 0, 0, None, "")>>
LoadModuleVarStmt == <<Ins("LoadModuleVar", 0, 0, None, "")>>
ModuleRootStmts == {LoadModuleVarStmt, DefG, CallG, LoadUndefined}

\* `left && right`, `left || right`, `left ?? right` over the code of the
\* operands; a jump carries the number of instructions it passes over,
\* lhs is the register `??` saves its left operand in
emit_logical_expr(op, left, right, lhs) ==
  CASE op = "and" ->
         left \o <<Ins("JumpIfFalse", 0, Len(right), None, "")>> \o right
    [] op = "or" ->
         left \o <<Ins("JumpIfFalse", 0, 1, None, ""),
                   Ins("Jump", 0, Len(right), None, "")>> \o right
    [] OTHER ->
         left \o <<Ins("Store", lhs, 0, None, ""),
                   Ins("IsNone", 0, 0, None, ""),
                   Ins("JumpIfFalse", 0, Len(right) + 1, None, "")>>
              \o right
              \o <<Ins("Jump", 0, 1, None, ""),
                   Ins("Load", lhs, 0, None, "")>>

\* `print left op right` for literal operands; the span of the statement
\* (operator and operands) stays with its last instruction, the operand
\* on the right is marked as such
LogicOps == {"and", "or", "maybe"}
LogicValues == <<None, Bool(FALSE), Bool(TRUE), IntV(2)>>
Span(op, i, j) == [t |-> op, a |-> i, b |-> j, c |-> 0]
LogicStmts(f) ==
  {emit_logical_expr(op, <<Ins("LoadConst", 0, 0, LogicValues[i], "")>>,
                     <<Ins("LoadConst", 0, 0, LogicValues[j], "rhs")>>,
                     CalleeC(f))
     \o <<Ins("Print", 0, 0, Span(op, i, j), "")>> :
     op \in LogicOps, i \in 1..Len(LogicValues), j \in 1..Len(LogicValues)}

\* `print left && right` with the offset of the jump in the constant pool
ConstLogicStmts ==
  {<<Ins("LoadConst", 0, 0, LogicValues[i], ""),
     Ins("JumpIfFalseConst", 0, 1, None, ""),
     Ins("LoadConst", 0, 0, LogicValues[j], "rhs"),
     Ins("Print", 0, 0, Span("and", i, j), "")>> :
     i \in 1..Len(LogicValues), j \in 1..Len(LogicValues)}

\* The programs under test, as the statements each function body is made of.
\*   "call":   functions calling functions with every argument count
\*   "class":  instantiation, init, field stores, method calls
\*   "import": module roots importing modules, failing, calling functions
\*   "super":  the inheritance test: test methods calling super.test()
\*   "opt":    field and index accesses on tables, plain and optional
\*   "print":  print statements with one and with several values
\*   "closure": nested functions capturing a local (the call_closure test)
\*   "logic":  print statements over `&&`, `||` and `??`
\*   "global": stores and loads of globals, at the root and in a function
\*   "modvar": imported modules whose roots and functions use module
\*             variables and pass functions to one another through a global
Programs ==
  {"call", "class", "import", "super", "opt", "print", "closure", "logic",
   "global", "modvar"}

Stmts(f) ==
  CASE program = "call" ->
         IF f = RootFn
         THEN CallStmts(f, {MakeFnT(1), MakeFnT(2), MakeFnT(5)}, 0..MaxArgs)
              \cup {StoreX(f)}
         ELSE IF f = 1
         THEN CallStmts(f, {MakeFnT(5)}, {0, 1}) \cup {LoadParam}
         ELSE {LoadParam}
    [] program = "class" ->
         IF f = RootFn
         THEN CallStmts(f, {MakeClassT(1), MakeClassT(2)}, 0..MaxArgs)
              \cup CallStmts(f, {FieldT(f)}, {0, 1})
              \cup {StoreX(f)} \cup StoreFieldStmts(f)
         ELSE IF f = 4
         THEN {LoadSelfStmt, StoreX(f), LoadUndefined}
              \cup StoreFieldStmts(f)
              \cup CallStmts(f, {MakeFnT(5)}, {1})
         ELSE IF f = 3 THEN {LoadSelfStmt}
         ELSE {LoadParam}
    [] program = "super" ->
         IF f = RootFn
         THEN CallStmts(f, {MakeClassT(c) : c \in {3, 4, 5, 6}}, {0})
              \cup CallStmts(f, {FieldT(f)}, {0})
              \cup BindStmts(f, {4, 6})
              \cup {StoreX(f), CallX(f), StaticField(3), LoadSuperStmt}
         ELSE IF f \in {7, 8} THEN {SuperCall, SelfField, LoadSelfStmt}
         ELSE IF f = 6 THEN {SelfField, LoadSelfStmt, LoadSuperStmt}
         ELSE {LoadParam}
    [] program = "opt" ->
         IF f = RootFn THEN LetStmts(f) \cup AccessStmts(f)
         ELSE {LoadParam}
    [] program = "print" ->
         IF f = RootFn THEN PrintStmts(f) ELSE {LoadParam}
    [] program = "logic" ->
         IF f = RootFn THEN LogicStmts(f) \cup ConstLogicStmts
         ELSE {LoadParam}
    [] program = "global" ->
         IF f = RootFn
         THEN StoreGlobalStmts
              \cup {LoadGlobalStmt, DefG, CallG}
         ELSE IF f = 12 THEN StoreGlobalStmts \cup {LoadGlobalStmt}
         ELSE {LoadParam}
    [] program = "modvar" ->
         IF f = RootFn
         THEN IF Last(call_frames).module_id = 0 THEN ImportStmts(f)
              ELSE ModuleRootStmts
         ELSE IF f = 12 THEN {StoreModuleVarStmt, LoadModuleVarStmt}
         ELSE {LoadParam}
    [] program = "closure" ->
         IF f = RootFn
         THEN CallStmts(f, {MakeFnT(9)}, {0})
              \cup {StoreX(f), CallX(f), CallResult(9)}
         ELSE IF f = 9
         THEN {StoreV(f), MakeFnT(10)}
         ELSE IF f = 10
         THEN CallStmts(f, {MakeFnT(11)}, {0}) \cup UpvalueStmts
         ELSE IF f = 11 THEN UpvalueStmts
         ELSE {LoadParam}
    [] OTHER ->
         IF f = RootFn
         THEN ImportStmts(f) \cup {LoadUndefined}
              \cup CallStmts(f, {MakeFnT(5)}, {1})
         ELSE {LoadParam}

Running == status = "run" /\ call_frames # <<>>

CurFn == Last(call_frames).func.a

\* the longest run of instructions of a frame
PcLimit ==
  CASE program = "logic" -> MaxLogic
    [] program = "modvar" -> MaxModPc
    [] OTHER -> MaxPc

\* what the dispatch loop may decode next
Pending ==
  IF code # <<>> THEN {code}
  ELSE {s \in Stmts(CurFn) : pc + Len(s) <= PcLimit} \cup {RetStmt}

Ev(op, callee, args, depth, via) ==
  [op |-> op, callee |-> callee, args |-> args, depth |-> depth, via |-> via]

Op(op) == Ev(op, None, <<>>, Len(call_frames), "")

Frame(f, ra, h) ==
  [func |-> f, frame_size |-> FrameSize(f.a), return_addr |-> ra,
   module_id |-> f.b, h |-> h]

\* history kept with a frame: the thread just before the call was made
Hist(via, resume) ==
  [via |-> via, depth |-> Len(call_frames), base |-> stack_base,
   len |-> Len(stack), resume |-> resume]

-----------------------------------------------------------------------------
(* Calls.  The operators below constrain the thread's own fields           *)
(* (call_frames, stack, stack_base, pc, status); do_call adds heap,        *)
(* native, acc and the history record.                                     *)

\* hebi::fail! inside a handler: the error starts to propagate
Fail(stk) ==
  /\ status' = "unwind"
  /\ stack' = stk
  /\ UNCHANGED <<call_frames, stack_base, pc>>

call_function(stk, f, base, n, ra, h) ==
  IF check_args(Params(f.a), FALSE, n)
  THEN /\ pc' = 0
       /\ stack_base' = base
       /\ stack' = Extend(stk, base + FrameSize(f.a))
       /\ call_frames' = Append(call_frames, Frame(f, ra, h))
       /\ status' = "run"
  ELSE Fail(stk)

\* call_method without set_register(Register(0), method.this())
call_method_noself(stk, m, base, n, ra, h) ==
  LET function == Fn(m.b, 0)
  IN IF check_args(Params(function.a), TRUE, n)
     THEN /\ pc' = 0
          /\ stack_base' = base
          /\ stack' = Extend(stk, base + FrameSize(function.a))
          /\ call_frames' = Append(call_frames, Frame(function, ra, h))
          /\ status' = "run"
     ELSE Fail(stk)

call_method(stk, m, base, n, ra, h) ==
  LET function == Fn(m.b, 0)
  IN IF check_args(Params(function.a), TRUE, n)
     THEN /\ pc' = 0
          /\ stack_base' = base
          /\ stack' = set_register(Extend(stk, base + FrameSize(function.a)),
                                   base, 0, MethodThis(m))
          /\ call_frames' = Append(call_frames, Frame(function, ra, h))
          /\ status' = "run"
     ELSE Fail(stk)

\* ClassInstance::new: the fields are cloned from the class, not frozen
NewInstance(c) ==
  [class |-> c, fields |-> ClassDefaults(c), is_frozen |-> FALSE]

\* init_class without instance.is_frozen.set(true)
Freeze_skip(hp, i) == hp

\* the tail of init_class, run when `init` has returned (or there is none)
Freeze(hp, i) == [hp EXCEPT ![i].is_frozen = TRUE]
InitResult(i, a) == Inst(i)

init_class(stk, c, base, n, h, a) ==
  LET i == Len(heap) + 1
      hp == Append(heap, NewInstance(c))
  IN IF ClassInit(c) # <<>>
     THEN IF check_args(Params(ClassInit(c)[1]), TRUE, n)
          THEN /\ call_method(stk, Method(i, ClassInit(c)[1]), base, n, <<>>, h)
               /\ heap' = hp
               /\ native' = Append(native, [kind |-> "init", id |-> i,
                                            dst |-> 0, resume |-> h.resume])
               /\ acc' = a
          ELSE /\ Fail(stk)
               /\ heap' = hp
               /\ UNCHANGED native
               /\ acc' = a
     ELSE IF n > 0
          THEN /\ Fail(stk)
               /\ heap' = hp
               /\ UNCHANGED native
               /\ acc' = a
          ELSE /\ heap' = Freeze(hp, i)
               /\ acc' = InitResult(i, a)
               /\ status' = "run"
               /\ stack' = stk
               /\ pc' = h.resume
               /\ UNCHANGED <<call_frames, stack_base, native>>

do_call(stk, value, base, n, ra, h, a, args) ==
  /\ CASE value.t = "fn" ->
            /\ call_function(stk, value, base, n, ra, h)
            /\ acc' = a
            /\ UNCHANGED <<heap, native>>
       [] value.t = "method" ->
            /\ call_method(stk, value, base, n, ra, h)
            /\ acc' = a
            /\ UNCHANGED <<heap, native>>
       [] value.t = "class" ->
            init_class(stk, value.a, base, n, h, a)
       [] OTHER ->
            /\ Fail(stk)
            /\ acc' = a
            /\ UNCHANGED <<heap, native>>
  /\ ev' = Ev(IF status' = "unwind" THEN "call_error"
              ELSE IF Len(call_frames') > Len(call_frames) THEN "enter"
              ELSE "construct",
              value, args, Len(call_frames), h.via)

\* room for one more frame and, for a class, one more instance
CanCall(value) ==
  /\ Len(call_frames) < MaxDepth
  /\ value.t = "class" => Len(heap) < MaxInstances

-----------------------------------------------------------------------------
(* Handlers that neither call nor return.                                  *)

\* the dispatch loop after a handler that returned Ok(()): next instruction
Advance(s) ==
  /\ code' = Tail(s)
  /\ pc' = pc + 1
  /\ status' = "run"

Globals ==
  <<registry, next_id, visited, root_runs, program, functions, em, globals,
    module_vars, lst, conv, indent>>

op_load ==
  /\ Running
  /\ \E s \in Pending :
       /\ Head(s).op = "Load"
       /\ acc' = get_register(stack, stack_base, Head(s).r)
       /\ Advance(s)
  /\ ev' = Op("load")
  /\ UNCHANGED <<call_frames, stack, stack_base, heap, native>>
  /\ UNCHANGED Globals

op_store ==
  /\ Running
  /\ \E s \in Pending :
       /\ Head(s).op = "Store"
       /\ stack' = set_register(stack, stack_base, Head(s).r, acc)
       /\ acc' = None
       /\ Advance(s)
  /\ ev' = Op("store")
  /\ UNCHANGED <<call_frames, stack_base, heap, native>>
  /\ UNCHANGED Globals

op_load_const ==
  /\ Running
  /\ \E s \in Pending :
       /\ Head(s).op = "LoadConst"
       /\ acc' = Head(s).v
       /\ Advance(s)
  /\ ev' = Op("load_const")
  /\ UNCHANGED <<call_frames, stack, stack_base, heap, native>>
  /\ UNCHANGED Globals

\* op_load_global against a table that never holds a name
op_load_global_empty ==
  /\ Running
  /\ \E s \in Pending :
       /\ Head(s).op = "LoadGlobal"
       /\ code' = Tail(s)
       /\ ev' = Ev("undefined_global", None, <<>>, Len(call_frames),
                   Head(s).s)
  /\ status' = "unwind"
  /\ UNCHANGED <<call_frames, stack, stack_base, acc, pc, heap, native>>
  /\ UNCHANGED Globals

\* globals().get(&name): the value, or fail!("undefined global {name}")
op_load_global ==
  /\ Running
  /\ \E s \in Pending :
       LET name == Head(s).s
       IN /\ Head(s).op = "LoadGlobal"
          /\ IF globals[name] = Absent
             THEN /\ code' = Tail(s)
                  /\ status' = "unwind"
                  /\ ev' = Ev("undefined_global", None, <<>>,
                              Len(call_frames), name)
                  /\ UNCHANGED <<acc, pc>>
             ELSE /\ acc' = globals[name]
                  /\ Advance(s)
                  /\ ev' = Ev("load_global", None, <<globals[name]>>,
                              Len(call_frames), name)
  /\ UNCHANGED <<call_frames, stack, stack_base, heap, native>>
  /\ UNCHANGED Globals

\* globals().insert(name, take(&mut self.acc))
op_store_global ==
  /\ Running
  /\ \E s \in Pending :
       LET name == Head(s).s
       IN /\ Head(s).op = "StoreGlobal"
          /\ globals' = [globals EXCEPT ![name] = acc]
          /\ Advance(s)
          /\ ev' = Ev("store_global", None, <<acc>>, Len(call_frames), name)
  /\ acc' = None
  /\ UNCHANGED <<call_frames, stack, stack_base, heap, native>>
  /\ UNCHANGED <<registry, next_id, visited, root_runs, program, functions,
                 em, module_vars, lst, conv, indent>>

\* ModuleRegistry::get_by_id: the module registered with this id (no
\* module has the id 0 of the function the embedder calls)
get_by_id(reg, module_id) ==
  module_id # 0 /\ \E p \in Paths : reg[p] = module_id

\* the Frame.module_id LoadModuleVar / StoreModuleVar take the module from
module_of_frame_caller(frames) ==
  IF Len(frames) > 1 THEN frames[Len(frames) - 1].module_id
  ELSE Last(frames).module_id

module_of_frame(frames) == Last(frames).module_id

\* op_load_module_var that reads the table kept for the frame's module id
\* without asking the registry for the module
op_load_module_var_unchecked ==
  /\ Running
  /\ \E s \in Pending :
       LET idx == Head(s).n
           module_id == module_of_frame(call_frames)
       IN /\ Head(s).op = "LoadModuleVar"
          /\ IF module_id = 0
             THEN /\ code' = Tail(s)
                  /\ status' = "unwind"
                  /\ ev' = Ev("module_var_error", Module(module_id), <<>>,
                              Len(call_frames), "failed to get module")
                  /\ UNCHANGED <<acc, pc>>
             ELSE /\ acc' = module_vars[module_id][idx + 1]
                  /\ Advance(s)
                  /\ ev' = Ev("load_module_var", Module(module_id),
                              <<module_vars[module_id][idx + 1]>>,
                              Len(call_frames), "")
  /\ UNCHANGED <<call_frames, stack, stack_base, heap, native>>
  /\ UNCHANGED Globals

\* module_vars.get_index(idx) of the current frame's module
op_load_module_var ==
  /\ Running
  /\ \E s \in Pending :
       LET idx == Head(s).n
           module_id == module_of_frame(call_frames)
       IN /\ Head(s).op = "LoadModuleVar"
          /\ IF ~get_by_id(registry, module_id)
             THEN /\ code' = Tail(s)
                  /\ status' = "unwind"
                  /\ ev' = Ev("module_var_error", Module(module_id), <<>>,
                              Len(call_frames), "failed to get module")
                  /\ UNCHANGED <<acc, pc>>
             ELSE IF idx >= NumModuleVars
             THEN /\ code' = Tail(s)
                  /\ status' = "unwind"
                  /\ ev' = Ev("module_var_error", Module(module_id), <<>>,
                              Len(call_frames), "failed to get module variable")
                  /\ UNCHANGED <<acc, pc>>
             ELSE /\ acc' = module_vars[module_id][idx + 1]
                  /\ Advance(s)
                  /\ ev' = Ev("load_module_var", Module(module_id),
                              <<module_vars[module_id][idx + 1]>>,
                              Len(call_frames), "")
  /\ UNCHANGED <<call_frames, stack, stack_base, heap, native>>
  /\ UNCHANGED Globals

\* module_vars.set_index(idx, take(&mut self.acc)) of the frame's module
op_store_module_var ==
  /\ Running
  /\ \E s \in Pending :
       LET idx == Head(s).n
           module_id == module_of_frame(call_frames)
       IN /\ Head(s).op = "StoreModuleVar"
          /\ IF ~get_by_id(registry, module_id)
             THEN /\ code' = Tail(s)
                  /\ status' = "unwind"
                  /\ ev' = Ev("module_var_error", Module(module_id), <<>>,
                              Len(call_frames), "failed to get module")
                  /\ UNCHANGED <<acc, pc, module_vars>>
             ELSE IF idx >= NumModuleVars
             THEN /\ code' = Tail(s)
                  /\ status' = "unwind"
                  /\ acc' = None
                  /\ ev' = Ev("module_var_error", Module(module_id), <<>>,
                              Len(call_frames), "failed to set module variable")
                  /\ UNCHANGED <<pc, module_vars>>
             ELSE /\ module_vars' =
                       [module_vars EXCEPT ![module_id][idx + 1] = acc]
                  /\ acc' = None
                  /\ Advance(s)
                  /\ ev' = Ev("store_module_var", Module(module_id), <<acc>>,
                              Len(call_frames), "")
  /\ UNCHANGED <<call_frames, stack, stack_base, heap, native>>
  /\ UNCHANGED <<registry, next_id, visited, root_runs, program, functions,
                 em, globals, lst, conv, indent>>

\* Function.upvalues / Frame.upvalues of the running frame
UpvaluesOf(f) == IF f.c = 0 THEN <<>> ELSE functions[f.c].upvalues

\* make_fn that allocates the Function with an empty upvalue List
make_fn_upvalues_empty(desc, junk) == <<>>

\* make_fn: one slot per entry of the descriptor's upvalue list, filled
\* from a register or from the running frame's upvalues (get_unchecked:
\* out of bounds reads whatever is there)
make_fn_upvalues(desc, junk) ==
  LET parent_upvalues == UpvaluesOf(Last(call_frames).func)
  IN [i \in 1..Len(FnUpvalues(desc)) |->
        LET upvalue == FnUpvalues(desc)[i]
        IN IF upvalue.register
           THEN get_register(stack, stack_base, upvalue.index)
           ELSE IF upvalue.index < Len(parent_upvalues)
                THEN parent_upvalues[upvalue.index + 1]
                ELSE junk]

Junk == {None, IntV(7)}

op_make_fn ==
  /\ Running
  /\ \E s \in Pending, junk \in Junk :
       LET desc == Head(s).n
           upvalues == make_fn_upvalues(desc, junk)
       IN /\ Head(s).op = "MakeFn"
          /\ IF upvalues = <<>>
             THEN /\ acc' = Fn(desc, Last(call_frames).module_id)
                  /\ UNCHANGED functions
             ELSE /\ Len(functions) < MaxFunctions
                  /\ acc' = Closure(desc, Last(call_frames).module_id,
                                    Len(functions) + 1)
                  /\ functions' = Append(functions, [desc |-> desc,
                                                     upvalues |-> upvalues])
          /\ Advance(s)
  /\ ev' = Op("make_fn")
  /\ UNCHANGED <<call_frames, stack, stack_base, heap, native>>
  /\ UNCHANGED <<registry, next_id, visited, root_runs, program, em, globals,
                 module_vars, lst, conv, indent>>

\* debug_assert!(idx < len), then get_unchecked / set_unchecked
op_load_upvalue ==
  /\ Running
  /\ \E s \in Pending, junk \in Junk :
       LET upvalues == UpvaluesOf(Last(call_frames).func)
           idx == Head(s).n
       IN /\ Head(s).op = "LoadUpvalue"
          /\ code' = Tail(s)
          /\ IF idx < Len(upvalues)
             THEN /\ acc' = upvalues[idx + 1]
                  /\ status' = "run"
                  /\ pc' = pc + 1
             ELSE \/ /\ status' = "panic"
                     /\ UNCHANGED <<acc, pc>>
                  \/ /\ acc' = junk
                     /\ status' = "run"
                     /\ pc' = pc + 1
  /\ ev' = Op("load_upvalue")
  /\ UNCHANGED <<call_frames, stack, stack_base, heap, native>>
  /\ UNCHANGED Globals

\* op_store_upvalue on upvalues kept per descriptor: the store reaches
\* every Function made from the running function's descriptor
op_store_upvalue_shared ==
  /\ Running
  /\ \E s \in Pending :
       LET func == Last(call_frames).func
           idx == Head(s).n
       IN /\ Head(s).op = "StoreUpvalue"
          /\ code' = Tail(s)
          /\ IF idx < Len(UpvaluesOf(func))
             THEN /\ functions' =
                       [k \in DOMAIN functions |->
                          IF functions[k].desc = func.a
                          THEN [functions[k] EXCEPT !.upvalues[idx + 1] = acc]
                          ELSE functions[k]]
                  /\ acc' = None
                  /\ status' = "run"
                  /\ pc' = pc + 1
             ELSE /\ status' = "panic"
                  /\ UNCHANGED <<acc, pc, functions>>
  /\ ev' = Op("store_upvalue")
  /\ UNCHANGED <<call_frames, stack, stack_base, heap, native>>
  /\ UNCHANGED <<registry, next_id, visited, root_runs, program, em, globals,
                 module_vars, lst, conv, indent>>

op_store_upvalue ==
  /\ Running
  /\ \E s \in Pending :
       LET func == Last(call_frames).func
           idx == Head(s).n
       IN /\ Head(s).op = "StoreUpvalue"
          /\ code' = Tail(s)
          /\ IF idx < Len(UpvaluesOf(func))
             THEN /\ functions' =
                       [functions EXCEPT ![func.c].upvalues[idx + 1] = acc]
                  /\ acc' = None
                  /\ status' = "run"
                  /\ pc' = pc + 1
             ELSE \* out of bounds: the debug build panics, the release
                  \* build writes outside the List
                  /\ status' = "panic"
                  /\ UNCHANGED <<acc, pc, functions>>
  /\ ev' = Op("store_upvalue")
  /\ UNCHANGED <<call_frames, stack, stack_base, heap, native>>
  /\ UNCHANGED <<registry, next_id, visited, root_runs, program, em, globals,
                 module_vars, lst, conv, indent>>

op_make_class ==
  /\ Running
  /\ \E s \in Pending :
       /\ Head(s).op = "MakeClass"
       /\ acc' = Class(Head(s).n)
       /\ Advance(s)
  /\ ev' = Op("make_class")
  /\ UNCHANGED <<call_frames, stack, stack_base, heap, native>>
  /\ UNCHANGED Globals

\* op_load_self that leaves register 0 as it is
op_load_self_raw ==
  /\ Running
  /\ \E s \in Pending :
       /\ Head(s).op = "LoadSelf"
       /\ acc' = get_register(stack, stack_base, 0)
       /\ Advance(s)
  /\ ev' = Op("load_self")
  /\ UNCHANGED <<call_frames, stack, stack_base, heap, native>>
  /\ UNCHANGED Globals

op_load_self ==
  /\ Running
  /\ \E s \in Pending :
       /\ Head(s).op = "LoadSelf"
       /\ LET this == get_register(stack, stack_base, 0)
          IN acc' = IF this.t = "proxy" THEN Inst(this.a) ELSE this
       /\ Advance(s)
  /\ ev' = Op("load_self")
  /\ UNCHANGED <<call_frames, stack, stack_base, heap, native>>
  /\ UNCHANGED Globals

\* `none` and `false` are falsy, everything else is truthy
is_truthy(value) == value # None /\ value # Bool(FALSE)

\* dispatch after Ok(offset) / Jump::Move(offset): the instructions the
\* jump passes over are not executed
Move(s) ==
  /\ code' = SubSeq(s, Head(s).n + 2, Len(s))
  /\ pc' = pc + 1 + Head(s).n
  /\ status' = "run"

op_jump ==
  /\ Running
  /\ \E s \in Pending :
       /\ Head(s).op = "Jump"
       /\ Move(s)
  /\ ev' = Op("jump")
  /\ UNCHANGED <<call_frames, stack, stack_base, acc, heap, native>>
  /\ UNCHANGED Globals

\* is_truthy(take(&mut self.acc)): Jump::Skip or Jump::Move(offset)
op_jump_if_false ==
  /\ Running
  /\ \E s \in Pending :
       /\ Head(s).op = "JumpIfFalse"
       /\ IF is_truthy(acc) THEN Advance(s) ELSE Move(s)
  /\ acc' = None
  /\ ev' = Op("jump_if_false")
  /\ UNCHANGED <<call_frames, stack, stack_base, heap, native>>
  /\ UNCHANGED Globals

\* the offset is constant Head(s).n of the pool: Jump::Move(offset) for a
\* truthy accumulator, Jump::Skip otherwise
op_jump_if_false_const ==
  /\ Running
  /\ \E s \in Pending :
       /\ Head(s).op = "JumpIfFalseConst"
       /\ IF is_truthy(acc) THEN Move(s) ELSE Advance(s)
  /\ acc' = None
  /\ ev' = Op("jump_if_false_const")
  /\ UNCHANGED <<call_frames, stack, stack_base, heap, native>>
  /\ UNCHANGED Globals

op_is_none ==
  /\ Running
  /\ \E s \in Pending :
       /\ Head(s).op = "IsNone"
       /\ Advance(s)
  /\ acc' = Bool(acc = None)
  /\ ev' = Op("is_none")
  /\ UNCHANGED <<call_frames, stack, stack_base, heap, native>>
  /\ UNCHANGED Globals

\* println!("{}", self.acc): the value and a newline, to the process's
\* standard output
op_print ==
  /\ Running
  /\ \E s \in Pending :
       /\ Head(s).op = "Print"
       /\ Advance(s)
       /\ ev' = Ev("print", Head(s).v, <<acc, Newline>>, Len(call_frames),
                   "stdout")
  /\ UNCHANGED <<call_frames, stack, stack_base, acc, heap, native>>
  /\ UNCHANGED Globals

\* print!("{value}") for each register of start..start+count, then
\* println!(), to the process's standard output
op_print_n ==
  /\ Running
  /\ \E s \in Pending :
       LET start == Head(s).r
           end == start + Head(s).n
       IN /\ Head(s).op = "PrintN"
          /\ ev' = Ev("print_n", None,
                      [j \in 1..(end - start) |->
                         get_register(stack, stack_base, start + j - 1)]
                        \o <<Newline>>,
                      Len(call_frames), "stdout")
          /\ Advance(s)
  /\ UNCHANGED <<call_frames, stack, stack_base, acc, heap, native>>
  /\ UNCHANGED Globals

\* ClassInstance.parent: the parent of the class it was created from
InstParent(i) == ClassParent(heap[i].class)

op_load_super ==
  /\ Running
  /\ \E s \in Pending :
       LET this == get_register(stack, stack_base, 0)
           parent == IF this.t = "proxy" THEN ClassParent(this.c)
                     ELSE InstParent(this.a)
       IN /\ Head(s).op = "LoadSuper"
          /\ code' = Tail(s)
          /\ IF this.t \notin {"proxy", "inst"}
             THEN \* `self` is not a class instance / is not a class
                  /\ status' = "unwind"
                  /\ acc' = acc
                  /\ pc' = pc
                  /\ ev' = Ev("load_super_error", this, <<>>,
                              Len(call_frames), "")
             ELSE IF parent = 0
             THEN \* parent.clone().unwrap() on None
                  /\ status' = "panic"
                  /\ acc' = acc
                  /\ pc' = pc
                  /\ ev' = Ev("load_super_panic", this, <<>>,
                              Len(call_frames), "")
             ELSE /\ acc' = Proxy(this.a, parent)
                  /\ status' = "run"
                  /\ pc' = pc + 1
                  /\ ev' = Ev("load_super", this, <<>>, Len(call_frames), "")
  /\ UNCHANGED <<call_frames, stack, stack_base, heap, native>>
  /\ UNCHANGED Globals

\* ClassInstance::named_field: own fields first, then the class's methods
\* (walking parents)
named_field(i, name) ==
  IF name \in FieldNames /\ heap[i].fields[name] # Absent
  THEN Some(heap[i].fields[name])
  ELSE ClassLookup(heap[i].class, name)

\* Table::get
TableGet(id, name) ==
  IF name \in DOMAIN TableEntries(id) /\ TableEntries(id)[name] # Absent
  THEN Some(TableEntries(id)[name])
  ELSE <<>>

\* Object::keyed_field: a table is indexed by a string key
keyed_field(object, key) ==
  IF object.t = "table" /\ key.t = "str"
  THEN TableGet(object.a, KeyNames[key.a])
  ELSE <<>>

\* Object::named_field by the kind of object: a ClassProxy looks the name
\* up in its class, a ClassType in itself; modules and functions hold none
\* of the names the programs load
object_named_field(object, name) ==
  CASE object.t = "inst" -> named_field(object.a, name)
    [] object.t = "proxy" -> ClassLookup(object.c, name)
    [] object.t = "class" -> ClassLookup(object.a, name)
    [] object.t = "table" -> TableGet(object.a, name)
    [] OTHER -> <<>>

is_callable(v) == v.t \in {"fn", "method", "class"}
is_class(v) == v.t \in {"inst", "proxy"}

\* the tail of op_load_field that leaves the callable as it was resolved
load_field_result_plain(receiver, value) == value

\* the tail of op_load_field: a callable read from an instance or a proxy
\* is bound to it
load_field_result(receiver, value) ==
  IF IsObject(receiver) /\ IsObject(value)
     /\ is_class(receiver) /\ is_callable(value)
  THEN ClassMethod(receiver, value)
  ELSE value

op_load_field ==
  /\ Running
  /\ \E s \in Pending :
       LET name == Head(s).s
           receiver == acc
       IN /\ Head(s).op = "LoadField"
          /\ code' = Tail(s)
          /\ IF ~IsObject(receiver)
             THEN \* todo!(): fields on primitives
                  /\ status' = "panic"
                  /\ acc' = None
                  /\ pc' = pc
                  /\ ev' = Ev("load_field_panic", receiver, <<>>,
                              Len(call_frames), name)
             ELSE IF object_named_field(receiver, name) # <<>>
             THEN LET value == object_named_field(receiver, name)[1]
                  IN /\ acc' = load_field_result(receiver, value)
                     /\ status' = "run"
                     /\ pc' = pc + 1
                     /\ ev' = Ev("load_field", receiver, <<value>>,
                                 Len(call_frames), name)
             ELSE /\ status' = "unwind"
                  /\ acc' = None
                  /\ pc' = pc
                  /\ ev' = Ev("load_field_error", receiver, <<>>,
                              Len(call_frames), name)
  /\ UNCHANGED <<call_frames, stack, stack_base, heap, native>>
  /\ UNCHANGED Globals

op_load_field_opt ==
  /\ Running
  /\ \E s \in Pending :
       LET name == Head(s).s
           receiver == acc
       IN /\ Head(s).op = "LoadFieldOpt"
          /\ code' = Tail(s)
          /\ IF receiver = None
             THEN /\ acc' = None
                  /\ status' = "run"
                  /\ pc' = pc + 1
                  /\ ev' = Ev("load_field_opt", receiver, <<>>,
                              Len(call_frames), name)
             ELSE IF ~IsObject(receiver)
             THEN \* todo!(): fields on primitives
                  /\ status' = "panic"
                  /\ acc' = None
                  /\ pc' = pc
                  /\ ev' = Ev("load_field_opt_panic", receiver, <<>>,
                              Len(call_frames), name)
             ELSE LET value == IF object_named_field(receiver, name) # <<>>
                               THEN object_named_field(receiver, name)[1]
                               ELSE None
                  IN /\ acc' = load_field_result(receiver, value)
                     /\ status' = "run"
                     /\ pc' = pc + 1
                     /\ ev' = Ev("load_field_opt", receiver, <<>>,
                                 Len(call_frames), name)
  /\ UNCHANGED <<call_frames, stack, stack_base, heap, native>>
  /\ UNCHANGED Globals

op_load_index ==
  /\ Running
  /\ \E s \in Pending :
       LET object == get_register(stack, stack_base, Head(s).r)
           key == acc
       IN /\ Head(s).op = "LoadIndex"
          /\ code' = Tail(s)
          /\ IF ~IsObject(object)
             THEN \* todo!(): fields on primitives
                  /\ status' = "panic"
                  /\ acc' = None
                  /\ pc' = pc
                  /\ ev' = Ev("load_index_panic", object, <<key>>,
                              Len(call_frames), "")
             ELSE IF keyed_field(object, key) # <<>>
             THEN /\ acc' = keyed_field(object, key)[1]
                  /\ status' = "run"
                  /\ pc' = pc + 1
                  /\ ev' = Ev("load_index", object, <<key>>,
                              Len(call_frames), "")
             ELSE /\ status' = "unwind"
                  /\ acc' = None
                  /\ pc' = pc
                  /\ ev' = Ev("load_index_error", object, <<key>>,
                              Len(call_frames), "")
  /\ UNCHANGED <<call_frames, stack, stack_base, heap, native>>
  /\ UNCHANGED Globals

op_load_index_opt ==
  /\ Running
  /\ \E s \in Pending :
       LET object == get_register(stack, stack_base, Head(s).r)
           key == acc
       IN /\ Head(s).op = "LoadIndexOpt"
          /\ code' = Tail(s)
          /\ IF object = None
             THEN /\ acc' = None
                  /\ status' = "run"
                  /\ pc' = pc + 1
                  /\ ev' = Ev("load_index_opt", object, <<key>>,
                              Len(call_frames), "")
             ELSE IF ~IsObject(object)
             THEN \* todo!(): fields on primitives
                  /\ status' = "panic"
                  /\ acc' = None
                  /\ pc' = pc
                  /\ ev' = Ev("load_index_opt_panic", object, <<key>>,
                              Len(call_frames), "")
             ELSE /\ acc' = IF keyed_field(object, key) # <<>>
                            THEN keyed_field(object, key)[1]
                            ELSE None
                  /\ status' = "run"
                  /\ pc' = pc + 1
                  /\ ev' = Ev("load_index_opt", object, <<key>>,
                              Len(call_frames), "")
  /\ UNCHANGED <<call_frames, stack, stack_base, heap, native>>
  /\ UNCHANGED Globals

\* ClassInstance::set_named_field: a frozen instance takes no new name
set_named_field(inst, name, value) ==
  IF inst.is_frozen /\ inst.fields[name] = Absent
  THEN <<>>
  ELSE Some([inst EXCEPT !.fields[name] = value])

\* op_store_field that drops the result of set_named_field instead of `?`
op_store_field_unchecked ==
  /\ Running
  /\ \E s \in Pending :
       LET name == Head(s).s
           object == get_register(stack, stack_base, Head(s).r)
           value == acc
       IN /\ Head(s).op = "StoreField"
          /\ code' = Tail(s)
          /\ acc' = None
          /\ IF ~IsObject(object)
             THEN /\ status' = "panic"
                  /\ pc' = pc
                  /\ heap' = heap
                  /\ ev' = Op("store_field_panic")
             ELSE /\ heap' = IF object.t = "inst"
                                /\ set_named_field(heap[object.a], name,
                                                   value) # <<>>
                             THEN [heap EXCEPT ![object.a] =
                                     set_named_field(heap[object.a], name,
                                                     value)[1]]
                             ELSE heap
                  /\ status' = "run"
                  /\ pc' = pc + 1
                  /\ ev' = Ev("store_field", object, <<value>>,
                              Len(call_frames), name)
  /\ UNCHANGED <<call_frames, stack, stack_base, native>>
  /\ UNCHANGED Globals

op_store_field ==
  /\ Running
  /\ \E s \in Pending :
       LET name == Head(s).s
           object == get_register(stack, stack_base, Head(s).r)
           value == acc
       IN /\ Head(s).op = "StoreField"
          /\ code' = Tail(s)
          /\ acc' = None
          /\ IF ~IsObject(object)
             THEN \* todo!(): fields on primitives
                  /\ status' = "panic"
                  /\ pc' = pc
                  /\ heap' = heap
                  /\ ev' = Op("store_field_panic")
             ELSE IF object.t = "inst"
                     /\ set_named_field(heap[object.a], name, value) # <<>>
             THEN /\ heap' = [heap EXCEPT ![object.a] =
                                set_named_field(heap[object.a], name, value)[1]]
                  /\ status' = "run"
                  /\ pc' = pc + 1
                  /\ ev' = Ev("store_field", object, <<value>>,
                              Len(call_frames), name)
             ELSE /\ status' = "unwind"
                  /\ pc' = pc
                  /\ heap' = heap
                  /\ ev' = Ev("store_field_error", object, <<value>>,
                              Len(call_frames), name)
  /\ UNCHANGED <<call_frames, stack, stack_base, native>>
  /\ UNCHANGED Globals

-----------------------------------------------------------------------------
(* Call, Call0, Thread::call and Ret.                                      *)

\* push_args!(self, reserved, range(start, end))
push_args_range(stk, reserved, start, end) ==
  Append(stk, reserved) \o SubSeq(stk, start + 1, end)

\* push_args!(self, args)
push_args_slice(stk, args) == stk \o args

op_call ==
  /\ Running
  /\ \E s \in Pending :
       LET callee == Head(s).r
           n == Head(s).n
           f == get_register(stack, stack_base, callee)
           start == stack_base + callee + 1
           new_base == Len(stack)
           stk1 == push_args_range(stack, f, start, start + n)
       IN /\ Head(s).op = "Call"
          /\ CanCall(f)
          /\ code' = Tail(s)
          /\ do_call(stk1, f, new_base, n, Some(pc + 1),
                     Hist("call", pc + 1), acc,
                     SubSeq(stack, start + 1, start + n))
  /\ UNCHANGED Globals

op_call0 ==
  /\ Running
  /\ \E s \in Pending :
       /\ Head(s).op = "Call0"
       /\ CanCall(acc)
       /\ code' = Tail(s)
       /\ do_call(stack, acc, Len(stack), 0, Some(pc + 1),
                  Hist("call0", pc + 1), None, <<>>)
  /\ UNCHANGED Globals

IntArgs(n) == [j \in 1..n |-> IntV(j)]

\* what the embedder passes to Thread::call: a module's root function, a
\* free function, or a method bound to an instance it holds
EmbedCallees ==
  {Fn(RootFn, 0), Fn(1, 0)}
  \cup {m \in {Method(i, f) : i \in 1..Len(heap), f \in FnIds} :
          named_field(m.a, "test") = Some(Fn(m.b, 0))}

\* Thread::call(f, args) up to the nested run
Thread_call ==
  /\ status = "idle"
  /\ \E f \in EmbedCallees, n \in 0..MaxArgs :
       /\ CanCall(f)
       /\ do_call(push_args_slice(stack, IntArgs(n)), f, Len(stack), n, <<>>,
                  Hist("embed", 0), acc, IntArgs(n))
  /\ code' = <<>>
  /\ UNCHANGED Globals

\* Hebi::eval(src) of a source that does not parse: `syntax::parse(src)?`
\* returns EvalError::Parse, nothing is emitted or run
Hebi_eval_parse ==
  /\ status = "idle"
  /\ ev' = Ev("eval_error", None, <<>>, 0, "Parse")
  /\ UNCHANGED <<call_frames, stack, stack_base, acc, pc, heap, native,
                 status, code>>
  /\ UNCHANGED Globals

\* Hebi::eval(src) of a source that parses and that the emitter rejects:
\* `emit::emit(..).unwrap()` on an Err
Hebi_eval_emit ==
  /\ status = "idle"
  /\ status' = "panic"
  /\ ev' = Ev("eval_panic", None, <<>>, 0, "emit")
  /\ UNCHANGED <<call_frames, stack, stack_base, acc, pc, heap, native, code>>
  /\ UNCHANGED Globals

\* Thread::new on the same Global, after a call has returned an error
Thread_new ==
  /\ status = "error"
  /\ call_frames' = <<>>
  /\ stack' = <<>>
  /\ stack_base' = 0
  /\ acc' = None
  /\ pc' = 0
  /\ native' = <<>>
  /\ code' = <<>>
  /\ status' = "idle"
  /\ ev' = Ev("new", None, <<>>, 0, "")
  /\ UNCHANGED heap
  /\ UNCHANGED Globals

\* op_return that moves stack_base back by the popped frame's own size
RestoreBase_callee(frames1, frame) ==
  IF frames1 = <<>> THEN stack_base
  ELSE stack_base - frame.frame_size

\* op_return: stack_base goes back by the caller's frame size
RestoreBase(frames1, frame) ==
  IF frames1 = <<>> THEN stack_base
  ELSE stack_base - Last(frames1).frame_size

\* Return::Yield: the innermost run() returns to whoever started it
Yield(stk1, base1) ==
  IF native = <<>>
  THEN \* Thread::call: Ok(take(&mut self.acc))
       /\ status' = "idle"
       /\ pc' = 0
       /\ acc' = None
       /\ stack' = stk1
       /\ UNCHANGED <<heap, native, visited>>
  ELSE LET top == Last(native)
       IN /\ native' = Front(native)
          /\ pc' = top.resume
          /\ status' = "run"
          /\ IF top.kind = "init"
             THEN \* init_class after self.run()
                  /\ heap' = Freeze(heap, top.id)
                  /\ acc' = InitResult(top.id, acc)
                  /\ stack' = stk1
                  /\ UNCHANGED visited
             ELSE \* load_module after self.call(), then op_import
                  /\ visited' = visited \ {top.id}
                  /\ acc' = None
                  /\ stack' = set_register(stk1, base1, top.dst, Module(top.id))
                  /\ UNCHANGED heap

op_return ==
  /\ Running
  /\ \E s \in Pending : Head(s).op = "Ret"
  /\ LET frame == Last(call_frames)
         frames1 == Front(call_frames)
         stk1 == Truncate(stack, Len(stack) - frame.frame_size)
         base1 == RestoreBase(frames1, frame)
     IN /\ call_frames' = frames1
        /\ stack_base' = base1
        /\ IF frames1 # <<>> /\ frame.return_addr # <<>>
           THEN /\ pc' = frame.return_addr[1]
                /\ stack' = stk1
                /\ acc' = acc
                /\ status' = "run"
                /\ UNCHANGED <<heap, native, visited>>
           ELSE Yield(stk1, base1)
        /\ ev' = Ev("ret", frame.func, <<>>, Len(call_frames), frame.h.via)
  /\ code' = <<>>
  /\ UNCHANGED <<registry, next_id, root_runs, program, functions, em, globals,
                 module_vars, lst, conv, indent>>

-----------------------------------------------------------------------------
(* Import.                                                                 *)

\* ModuleRegistry::remove(module_id)
RegistryRemove(reg, id) == [p \in Paths |-> IF reg[p] = id THEN 0 ELSE reg[p]]

\* load_module_cycle with the clean-up of a failed root run applied to it
load_module_cycle_cleanup(path) ==
  /\ status' = "unwind"
  /\ ev' = Ev("import_cycle", Module(registry[path]), <<>>,
              Len(call_frames), path)
  /\ visited' = visited \ {registry[path]}
  /\ UNCHANGED <<call_frames, stack, stack_base, acc, pc, heap, native>>
  /\ UNCHANGED <<registry, next_id, root_runs, program, functions, em, globals,
                 module_vars, lst, conv, indent>>

\* the module is in the registry and being initialized: fail
load_module_cycle(path) ==
  /\ status' = "unwind"
  /\ ev' = Ev("import_cycle", Module(registry[path]), <<>>,
              Len(call_frames), path)
  /\ UNCHANGED <<call_frames, stack, stack_base, acc, pc, heap, native>>
  /\ UNCHANGED Globals

\* load_module_hit that runs the cached module's root function once more
load_module_hit_rerun(path, dst) ==
  /\ stack' = set_register(stack, stack_base, dst, Module(registry[path]))
  /\ pc' = pc + 1
  /\ status' = "run"
  /\ ev' = Ev("import_cached", Module(registry[path]), <<>>,
              Len(call_frames), path)
  /\ root_runs' = [root_runs EXCEPT ![registry[path]] = @ + 1]
  /\ UNCHANGED <<call_frames, stack_base, acc, heap, native>>
  /\ UNCHANGED <<registry, next_id, visited, program, functions, em, globals,
                 module_vars, lst, conv, indent>>

\* the module is in the registry: return it; op_import stores it into dst
load_module_hit(path, dst) ==
  /\ stack' = set_register(stack, stack_base, dst, Module(registry[path]))
  /\ pc' = pc + 1
  /\ status' = "run"
  /\ ev' = Ev("import_cached", Module(registry[path]), <<>>,
              Len(call_frames), path)
  /\ UNCHANGED <<call_frames, stack_base, acc, heap, native>>
  /\ UNCHANGED Globals

\* load_module_fresh that calls the root function of a module it has not
\* put into the registry
load_module_fresh_unregistered(path, dst, outcome) ==
  LET module_id == next_id
      main == Fn(RootFn, module_id)
  IN /\ next_id' = next_id + 1
     /\ IF outcome = "ok"
        THEN /\ visited' = visited \cup {module_id}
             /\ root_runs' = [root_runs EXCEPT ![module_id] = @ + 1]
             /\ call_function(push_args_slice(stack, <<>>), main, Len(stack),
                              0, <<>>, Hist("import", pc + 1))
             /\ native' = Append(native, [kind |-> "import", id |-> module_id,
                                          dst |-> dst, resume |-> pc + 1])
             /\ ev' = Ev("import_load", Module(module_id), <<>>,
                         Len(call_frames), path)
             /\ UNCHANGED <<acc, heap, registry>>
        ELSE /\ status' = "unwind"
             /\ ev' = Ev("import_failed", Module(module_id), <<>>,
                         Len(call_frames), path)
             /\ UNCHANGED <<call_frames, stack, stack_base, acc, pc, heap,
                            native, registry, visited, root_runs>>
     /\ UNCHANGED <<program, functions, em, globals, module_vars, lst, conv, indent>>

\* the module is not in the registry: load, parse, emit, register, run
load_module_fresh(path, dst, outcome) ==
  LET module_id == next_id
      main == Fn(RootFn, module_id)
  IN /\ next_id' = next_id + 1
     /\ IF outcome = "ok"
        THEN /\ registry' = [registry EXCEPT ![path] = module_id]
             /\ visited' = visited \cup {module_id}
             /\ root_runs' = [root_runs EXCEPT ![module_id] = @ + 1]
             /\ call_function(push_args_slice(stack, <<>>), main, Len(stack),
                              0, <<>>, Hist("import", pc + 1))
             /\ native' = Append(native, [kind |-> "import", id |-> module_id,
                                          dst |-> dst, resume |-> pc + 1])
             /\ ev' = Ev("import_load", Module(module_id), <<>>,
                         Len(call_frames), path)
             /\ UNCHANGED <<acc, heap>>
        ELSE \* the loader or the parser returned an error
             /\ status' = "unwind"
             /\ ev' = Ev("import_failed", Module(module_id), <<>>,
                         Len(call_frames), path)
             /\ UNCHANGED <<call_frames, stack, stack_base, acc, pc, heap,
                            native, registry, visited, root_runs>>
     /\ UNCHANGED <<program, functions, em, globals,
                 module_vars, lst, conv, indent>>

op_import ==
  /\ Running
  /\ \E s \in Pending :
       LET path == Head(s).s
           dst == Head(s).r
       IN /\ Head(s).op = "Import"
          /\ code' = Tail(s)
          /\ IF registry[path] # 0
             THEN IF registry[path] \in visited
                  THEN load_module_cycle(path)
                  ELSE load_module_hit(path, dst)
             ELSE /\ next_id <= MaxModuleId
                  /\ Len(call_frames) < MaxDepth
                  /\ \E outcome \in {"ok", "load_error", "syntax_error"} :
                       load_module_fresh(path, dst, outcome)

-----------------------------------------------------------------------------
(* Error propagation through the suspended handlers.                       *)

\* load_module_err without module_registry_mut().remove(module_id)
load_module_err_keep ==
  /\ status = "unwind"
  /\ native # <<>>
  /\ Last(native).kind = "import"
  /\ visited' = visited \ {Last(native).id}
  /\ native' = Front(native)
  /\ ev' = Ev("import_error", Module(Last(native).id), <<>>,
              Len(call_frames), "")
  /\ UNCHANGED <<call_frames, stack, stack_base, acc, pc, heap, status, code,
                 next_id, root_runs, program, functions,
                 em, registry, globals, module_vars, lst, conv, indent>>

\* load_module_err without module_visited_set_mut().remove(&module_id)
load_module_err_visited ==
  /\ status = "unwind"
  /\ native # <<>>
  /\ Last(native).kind = "import"
  /\ registry' = RegistryRemove(registry, Last(native).id)
  /\ native' = Front(native)
  /\ ev' = Ev("import_error", Module(Last(native).id), <<>>,
              Len(call_frames), "")
  /\ UNCHANGED <<call_frames, stack, stack_base, acc, pc, heap, status, code,
                 next_id, root_runs, program, functions, visited,
                 em, globals, module_vars, lst, conv, indent>>

\* load_module: Err(e) from self.call(): unregister, leave the visited set
load_module_err ==
  /\ status = "unwind"
  /\ native # <<>>
  /\ Last(native).kind = "import"
  /\ registry' = RegistryRemove(registry, Last(native).id)
  /\ visited' = visited \ {Last(native).id}
  /\ native' = Front(native)
  /\ ev' = Ev("import_error", Module(Last(native).id), <<>>,
              Len(call_frames), "")
  /\ UNCHANGED <<call_frames, stack, stack_base, acc, pc, heap, status, code,
                 next_id, root_runs, program, functions,
                 em, globals,
                 module_vars, lst, conv, indent>>

\* init_class: self.run()? returns the error; the instance stays unfrozen
init_class_err ==
  /\ status = "unwind"
  /\ native # <<>>
  /\ Last(native).kind = "init"
  /\ native' = Front(native)
  /\ ev' = Ev("init_error", Inst(Last(native).id), <<>>, Len(call_frames), "")
  /\ UNCHANGED <<call_frames, stack, stack_base, acc, pc, heap, status, code>>
  /\ UNCHANGED Globals

\* Thread::call returns the error to the embedder
Thread_call_err ==
  /\ status = "unwind"
  /\ native = <<>>
  /\ status' = "error"
  /\ ev' = Ev("error", None, <<>>, Len(call_frames), "")
  /\ UNCHANGED <<call_frames, stack, stack_base, acc, pc, heap, native, code>>
  /\ UNCHANGED Globals

-----------------------------------------------------------------------------

Init ==
  /\ call_frames = <<>>
  /\ stack = <<>>
  /\ stack_base = 0
  /\ acc = None
  /\ pc = 0
  /\ registry = [p \in Paths |-> 0]
  /\ next_id = 1
  /\ visited = {}
  /\ heap = <<>>
  /\ native = <<>>
  /\ status = "idle"
  /\ code = <<>>
  /\ root_runs = [i \in 1..MaxModuleId |-> 0]
  /\ program \in Programs
  /\ functions = <<>>
  /\ em = <<>>
  /\ globals = [n \in GlobalNames |-> Absent]
  /\ module_vars = [i \in 1..MaxModuleId |-> NewModuleVars]
  /\ lst = <<>>
  /\ conv = <<>>
  /\ indent = <<>>
  /\ ev = Ev("new", None, <<>>, 0, "")

Next ==
  \/ Thread_call
  \/ Thread_new
  \/ Thread_call_err
  \/ Hebi_eval_parse
  \/ Hebi_eval_emit
  \/ op_load
  \/ op_store
  \/ op_load_const
  \/ op_load_global
  \/ op_store_global
  \/ op_load_module_var
  \/ op_store_module_var
  \/ op_make_fn
  \/ op_load_upvalue
  \/ op_store_upvalue
  \/ op_make_class
  \/ op_load_self
  \/ op_load_super
  \/ op_load_field
  \/ op_load_field_opt
  \/ op_load_index
  \/ op_load_index_opt
  \/ op_jump
  \/ op_jump_if_false
  \/ op_jump_if_false_const
  \/ op_is_none
  \/ op_print
  \/ op_print_n
  \/ op_store_field
  \/ op_call
  \/ op_call0
  \/ op_return
  \/ op_import
  \/ load_module_err
  \/ init_class_err

Spec == Init /\ [][Next]_vars

-----------------------------------------------------------------------------
(* Properties of module import.                                            *)

ImportOps == {"import_cycle", "import_cached", "import_load", "import_failed"}

\* C1: an Import of a path that is in the registry while its id is in the
\* visited set fails (partially initialized module); the failed attempt
\* leaves the registry and the visited set as they were and enters no
\* module root (no frame is pushed, no root run is counted).
C1_CycleImportFails ==
  [][(ev'.op \in ImportOps /\ registry[ev'.via] # 0
        /\ registry[ev'.via] \in visited)
     => /\ ev'.op = "import_cycle"
        /\ status' = "unwind"
        /\ registry' = registry
        /\ visited' = visited
        /\ root_runs' = root_runs
        /\ call_frames' = call_frames]_vars

C1_Witness ==
  /\ ev.op = "import_cycle"
  /\ status = "unwind"
  /\ registry[ev.via] \in visited

\* C2: an Import of a path that is in the registry and not in the visited
\* set stores that registered module into the destination register and runs
\* no root function (no frame, no root run, registry unchanged); the root
\* function of every module id runs at most once, and that of a loaded
\* (registered, no longer visited) path has run exactly once.
C2_CachedImport ==
  /\ [][(ev'.op \in ImportOps /\ registry[ev'.via] # 0
           /\ registry[ev'.via] \notin visited)
        => /\ ev'.op = "import_cached"
           /\ get_register(stack', stack_base', LocalX(CurFn))
                = Module(registry[ev'.via])
           /\ registry' = registry
           /\ visited' = visited
           /\ root_runs' = root_runs
           /\ call_frames' = call_frames]_vars
  /\ [](\A id \in 1..MaxModuleId : root_runs[id] <= 1)
  /\ [](\A p \in Paths :
          (registry[p] # 0 /\ registry[p] \notin visited)
            => root_runs[registry[p]] = 1)

C2_Witness ==
  /\ ev.op = "import_cached"
  /\ status = "run"
  /\ root_runs[registry[ev.via]] = 1
  /\ get_register(stack, stack_base, LocalX(CurFn)) = Module(registry[ev.via])

\* C3: when the root function of a module being imported fails, its id
\* leaves the registry and the visited set and the error keeps propagating;
\* an Import of a path that is not in the registry always asks the loader;
\* when the loader or the parser fails, registry and visited set are as
\* before the Import.
C3_FailedImport ==
  [][/\ (ev'.op = "import_error")
          => /\ \A p \in Paths : registry'[p] # ev'.callee.a
             /\ \A p \in Paths :
                  registry[p] # ev'.callee.a => registry'[p] = registry[p]
             /\ ev'.callee.a \notin visited'
             /\ status' = "unwind"
     /\ (ev'.op \in ImportOps /\ registry[ev'.via] = 0)
          => ev'.op \in {"import_load", "import_failed"}
     /\ (ev'.op = "import_failed")
          => /\ registry' = registry
             /\ visited' = visited
             /\ status' = "unwind"]_vars

\* the root of module 1 ran and failed, and a later Import loaded afresh
C3_Witness ==
  /\ ev.op = "import_load"
  /\ root_runs[1] = 1
  /\ \A p \in Paths : registry[p] # 1
  /\ 1 \notin visited

-----------------------------------------------------------------------------
(* Properties of class instantiation and instance fields.                  *)

\* the frame of an `init` started by init_class from a Call or Call0
InitFrame(fr) == fr.return_addr = <<>> /\ fr.h.via \in {"call", "call0"}

\* C4: an instance is not frozen while its `init` has not returned; it is
\* frozen when the instantiating call completes (at once when the class
\* has no `init`), and the call's result is the new instance; a frozen
\* instance stays frozen.
C4_FreezeAfterInit ==
  /\ [](\A k \in 1..Len(native) :
          native[k].kind = "init" => ~heap[native[k].id].is_frozen)
  /\ [][/\ \A i \in 1..Len(heap) : heap[i].is_frozen => heap'[i].is_frozen
        /\ (ev'.op = "construct")
             => /\ Len(heap') = Len(heap) + 1
                /\ heap'[Len(heap')].is_frozen
                /\ acc' = Inst(Len(heap'))
        /\ (ev'.op = "ret" /\ InitFrame(Last(call_frames)))
             => /\ ~heap[Last(native).id].is_frozen
                /\ heap'[Last(native).id].is_frozen
                /\ acc' = Inst(Last(native).id)]_vars

\* `init` of class U has returned to the instantiating call
C4_Witness ==
  /\ ev.op = "ret"
  /\ ev.callee = Fn(4, 0)
  /\ ev.via \in {"call", "call0"}
  /\ status = "run"
  /\ acc.t = "inst"
  /\ heap[acc.a].is_frozen

FieldKeys(inst) == {n \in FieldNames : inst.fields[n] # Absent}

\* C5: no step changes the key set of a frozen instance's field table; a
\* StoreField of a name a frozen instance lacks fails and changes nothing;
\* every other StoreField on an instance (an existing name, or any name
\* before the freeze, i.e. during `init`) succeeds and sets just that field.
C5_FrozenFields ==
  [][/\ \A i \in 1..Len(heap) :
          heap[i].is_frozen => FieldKeys(heap'[i]) = FieldKeys(heap[i])
     /\ (ev'.op \in {"store_field", "store_field_error"}
           /\ ev'.callee.t = "inst")
          => IF heap[ev'.callee.a].is_frozen
                  /\ heap[ev'.callee.a].fields[ev'.via] = Absent
             THEN /\ ev'.op = "store_field_error"
                  /\ status' = "unwind"
                  /\ heap' = heap
             ELSE /\ ev'.op = "store_field"
                  /\ status' = "run"
                  /\ heap' = [heap EXCEPT ![ev'.callee.a].fields[ev'.via] =
                                ev'.args[1]]]_vars

\* a StoreField of a new name on a frozen instance has failed
C5_Witness ==
  /\ ev.op = "store_field_error"
  /\ ev.callee.t = "inst"
  /\ heap[ev.callee.a].is_frozen
  /\ heap[ev.callee.a].fields[ev.via] = Absent

\* C6: a call with arguments of a class that has no `init` constructs an
\* instance whose first declared field holds the first positional argument.
C6_DataClassConstructor ==
  [][(ev'.op \in {"construct", "call_error", "enter"}
        /\ ev'.callee.t = "class"
        /\ ClassInit(ev'.callee.a) = <<>>
        /\ Len(ev'.args) > 0)
     => /\ status' = "run"
        /\ acc'.t = "inst"
        /\ heap'[acc'.a].fields["x"] = ev'.args[1]]_vars

-----------------------------------------------------------------------------
(* Properties of the calling convention.                                   *)

\* p - d: the positional parameters of f that have no default
Required(f) == Len(FnPos(f)) - Cardinality({i \in DOMAIN FnPos(f) : FnPos(f)[i]})

ArityOk(f, n) ==
  IF FnArgv(f) THEN n >= Required(f)
  ELSE Required(f) <= n /\ n <= Len(FnPos(f))

\* C7: a call of a function with n positional arguments enters the callee
\* exactly when p-d <= n <= p (n >= p-d with a varargs parameter); a call
\* outside that range fails, pushes no frame, and while the error
\* propagates no instruction runs.
C7_Arity ==
  [][/\ (ev'.op \in {"enter", "call_error"} /\ ev'.callee.t = "fn")
          => /\ (ev'.op = "enter") <=> ArityOk(ev'.callee.a, Len(ev'.args))
             /\ (ev'.op = "enter")
                  => /\ call_frames' = Append(call_frames, Last(call_frames'))
                     /\ Last(call_frames').func = ev'.callee
                     /\ pc' = 0
             /\ (ev'.op = "call_error")
                  => /\ call_frames' = call_frames
                     /\ status' = "unwind"
                     /\ pc' = pc
     /\ (status = "unwind")
          => /\ ev'.op \in {"import_error", "init_error", "error"}
             /\ call_frames' = call_frames
             /\ pc' = pc]_vars

\* a call with more arguments than parameters has failed
C7_Witness ==
  /\ ev.op = "call_error"
  /\ ev.callee.t = "fn"
  /\ ~FnArgv(ev.callee.a)
  /\ Len(ev.args) > Len(FnPos(ev.callee.a))
  /\ status = "unwind"

C9_ArgumentRegisters ==
  (ev.op = "enter")
    => \A i \in 1..Len(ev.args) :
         /\ get_register(stack, stack_base, i) = ev.args[i]
         /\ get_register(stack, stack_base, 0) # ev.args[i]

\* the arity check of a bound method: `self` is not counted
MethodArityOk(f, n) ==
  /\ n >= Required(f) - 1
  /\ FnArgv(f) \/ n <= Len(FnPos(f)) - 1

\* C10: when a frame has just been entered through a ClassMethod (or the
\* method init_class binds `init` to), register 0 holds the receiver and
\* the frame runs the method's function; the call is entered exactly when
\* the arguments fit the parameters other than `self`.
C10_MethodReceiver ==
  /\ []((ev.op = "enter" /\ ev.callee.t = "method")
          => /\ get_register(stack, stack_base, 0) = MethodThis(ev.callee)
             /\ Last(call_frames).func.a = ev.callee.b)
  /\ []((ev.op = "enter" /\ ev.callee.t = "class")
          => /\ get_register(stack, stack_base, 0) = Inst(Len(heap))
             /\ Some(Last(call_frames).func.a) = ClassInit(ev.callee.a))
  /\ [][/\ (ev'.op \in {"enter", "call_error"} /\ ev'.callee.t = "method")
             => ((ev'.op = "enter")
                   <=> MethodArityOk(ev'.callee.b, Len(ev'.args)))
        /\ (ev'.op \in {"enter", "call_error"} /\ ev'.callee.t = "class"
              /\ ClassInit(ev'.callee.a) # <<>>)
             => ((ev'.op = "enter")
                   <=> MethodArityOk(ClassInit(ev'.callee.a)[1],
                                     Len(ev'.args)))]_vars

\* a method loaded from an instance has been entered by Call0
C10_Witness ==
  /\ ev.op = "enter"
  /\ ev.callee.t = "method"
  /\ ev.via = "call0"
  /\ get_register(stack, stack_base, 0) = Inst(ev.callee.a)
  /\ heap[ev.callee.a].is_frozen

-----------------------------------------------------------------------------
(* Properties of field loads, `self` and `super`.                          *)

\* the instance a receiver stands for: a proxy's `this`, or the instance
SelfOf(v) == IF v.t = "proxy" THEN Inst(v.a) ELSE v

\* C11: a LoadField that resolves a name leaves, when the receiver is a
\* class instance or a ClassProxy and the resolved value is callable, a
\* ClassMethod whose receiver is that receiver and whose function is the
\* resolved callable, and otherwise the resolved value itself; a frame
\* entered through such a method value, also one that was stored in a
\* variable first, has the instance it was read from as `self`.
C11_LoadFieldBindsMethod ==
  /\ [][ev'.op = "load_field"
          => LET receiver == ev'.callee
                 value == ev'.args[1]
             IN IF receiver.t \in {"inst", "proxy"}
                   /\ value.t \in {"fn", "method", "class"}
                THEN /\ acc'.t = "method"
                     /\ MethodThis(acc') = receiver
                     /\ acc'.b = value.a
                ELSE acc' = value]_vars
  /\ []((ev.op = "enter" /\ ev.callee.t = "method")
          => SelfOf(get_register(stack, stack_base, 0)) = Inst(ev.callee.a))

\* `x := K().test` then `x()`: the method value held by the variable has
\* been entered and runs with the instance as `self`
C11_Witness ==
  /\ program = "super"
  /\ ev.op = "enter"
  /\ ev.callee.t = "method"
  /\ Len(call_frames) = 2
  /\ stack[LocalX(RootFn) + 1] = ev.callee
  /\ get_register(stack, stack_base, 0) = Inst(ev.callee.a)

\* the functions of the frames alive, innermost last
FrameFns == [k \in DOMAIN call_frames |-> call_frames[k].func.a]

\* C13: a LoadSuper executed by a method that class K declares yields a
\* ClassProxy of the receiver whose class is the parent of K, whatever
\* register 0 holds (an instance of K, a proxy, an instance of a subclass
\* that inherits the method); so no method is entered twice by one chain
\* of super calls.
C13_SuperIsParentOfDefiningClass ==
  /\ [][ev'.op = "load_super"
          => /\ acc'.t = "proxy"
             /\ acc'.a = ev'.callee.a
             /\ acc'.c = ClassParent(FnClass(CurFn))]_vars
  /\ [](program = "super"
          => \A j, k \in DOMAIN call_frames :
               (j # k /\ FrameFns[j] # RootFn) => FrameFns[j] # FrameFns[k])

\* C14: LoadSelf leaves the instance register 0 stands for, never a
\* ClassProxy; a method entered through `super` runs for the same instance
\* as its caller; so `self.x` read in any method of a chain of super calls
\* is the field of the instance the chain started with (2 all along the
\* chain of C().test()).
C14_SelfIsOriginalInstance ==
  /\ [][ev'.op = "load_self"
          => /\ acc'.t # "proxy"
             /\ acc' = SelfOf(get_register(stack, stack_base, 0))]_vars
  /\ []((ev.op = "enter" /\ ev.callee.t = "method" /\ ev.callee.c # 0)
          => SelfOf(get_register(stack, stack_base, 0))
               = SelfOf(get_register(stack, Last(call_frames).h.base, 0)))
  /\ [][(ev.op = "load_self" /\ ev'.op = "load_field" /\ ev'.via = "x")
          => LET this == SelfOf(get_register(stack, stack_base, 0))
             IN /\ this.t = "inst"
                /\ ev'.callee = this
                /\ acc' = heap[this.a].fields["x"]
                /\ heap[this.a].class = 5 => acc' = IntV(2)]_vars

\* C().test() has reached A.test through two super calls, and `self.x`
\* read there is 2
C14_Witness ==
  /\ FrameFns = <<8, 7, 6>>
  /\ get_register(stack, stack_base, 0) = Proxy(1, 3)
  /\ ev.op = "load_field"
  /\ ev.via = "x"
  /\ ev.callee = Inst(1)
  /\ acc = IntV(2)

-----------------------------------------------------------------------------
(* Properties of optional access.                                          *)

FieldOps == {"load_field", "load_field_error", "load_field_panic"}
FieldOptOps ==
  {"load_field_opt", "load_field_opt_error", "load_field_opt_panic"}
IndexOps == {"load_index", "load_index_error", "load_index_panic"}
IndexOptOps ==
  {"load_index_opt", "load_index_opt_error", "load_index_opt_panic"}

\* the receiver is none, or it is an object that lacks the name / the key
NameMissing(e) ==
  \/ e.callee = None
  \/ IsObject(e.callee) /\ object_named_field(e.callee, e.via) = <<>>
KeyMissing(e) ==
  \/ e.callee = None
  \/ IsObject(e.callee) /\ keyed_field(e.callee, e.args[1]) = <<>>

\* C12: inside an optional expression a field or index access whose
\* receiver is none or whose name or key is missing leaves none and raises
\* no error (so the next link of the chain sees none and leaves none
\* again); the same access outside an optional expression raises the
\* missing-field error.
C12_OptionalAccess ==
  [][/\ (ev'.op \in FieldOptOps /\ NameMissing(ev'))
          => (acc' = None /\ status' = "run")
     /\ (ev'.op \in IndexOptOps /\ KeyMissing(ev'))
          => (acc' = None /\ status' = "run")
     /\ (ev'.op \in FieldOps /\ NameMissing(ev')) => status' = "unwind"
     /\ (ev'.op \in IndexOps /\ KeyMissing(ev')) => status' = "unwind"]_vars

-----------------------------------------------------------------------------
(* Properties of print.                                                    *)

\* a single space on the sink
Space == [t |-> "space", a |-> 0, b |-> 0, c |-> 0]

\* the values with one space between neighbours
Spaced(values) ==
  [j \in 1..(2 * Len(values) - 1) |->
     IF j % 2 = 1 THEN values[(j + 1) \div 2] ELSE Space]

\* C20: PrintN start, count writes the values of the registers
\* start .. start+count-1 in order, with a single space between
\* neighbours and one newline after the last, to the sink configured by
\* the embedder.
C20_PrintN ==
  [][ev'.op = "print_n"
       => LET start == Head(code).r
              count == Head(code).n
              values == [j \in 1..count |->
                           get_register(stack, stack_base, start + j - 1)]
          IN /\ ev'.args = Spaced(values) \o <<Newline>>
             /\ ev'.via = "sink"]_vars

-----------------------------------------------------------------------------
(* Properties of closures.                                                 *)

\* the Function objects the thread holds: in the accumulator, in a
\* register, as the function of a frame
FnValues ==
  {v \in {acc} \cup {stack[k] : k \in DOMAIN stack}
            \cup {call_frames[k].func : k \in DOMAIN call_frames} :
     v.t = "fn"}

-----------------------------------------------------------------------------
(* The bytecode emitter (src/crates/emit/src/emitter.rs).  `em` holds two  *)
(* runs of the emitter over the same module; a run is the stack of         *)
(* Function states (the chain of `parent`s, the function being emitted     *)
(* last) and the functions already built.  The module is an input: it is   *)
(* produced one statement at a time, and each statement is emitted by      *)
(* both runs.  The runs differ at most in the seed of their HashMaps.      *)

MaxNest == 3         \* functions nested in one another
MaxStmts == 4        \* statements of the function body with the calls
MaxBody == 2         \* statements of every other function body

EmitNames == {"x", "y", "p", "k", "g", "self", "f1", "f2", "f3"}

\* an instruction as the builder holds it: `reg` is its register operand
\* (-1: none), `virt` the virtual register it was emitted with, `slot` a
\* capture slot, constant slot or argument count, `argv` the virtual
\* registers allocated for the arguments of a call
EInstr(op, reg, slot, name, argv) ==
  [op |-> op, reg |-> reg, virt |-> reg, slot |-> slot, name |-> name,
   argv |-> argv]

\* Function::new
NewFunction(name, seed) ==
  [name |-> name, instrs |-> <<>>, consts |-> <<>>, next_reg |-> 0,
   clock |-> 0, access |-> <<>>,
   locals |-> [n \in EmitNames |-> <<>>],
   captures |-> [n \in EmitNames |-> <<>>],
   capture_slot |-> 0, stmts |-> 0, seed |-> seed,
   params |-> [pos |-> <<>>, kw |-> <<>>, argv |-> "", kwargs |-> ""]]

\* RegAlloc::alloc: the next virtual register, not yet accessed
alloc(fn) ==
  [fn EXCEPT !.next_reg = @ + 1,
             !.access = Append(@, [first |-> 0, last |-> 0])]

\* Register::index: one more access of the virtual register v
index(fn, v) ==
  [fn EXCEPT !.clock = @ + 1,
             !.access[v + 1] =
               [first |-> IF @.first = 0 THEN fn.clock + 1 ELSE @.first,
                last |-> fn.clock + 1]]

\* emit_op of an instruction built with reg.index()
emit_op(fn, instr) ==
  LET f1 == IF instr.reg >= 0 THEN index(fn, instr.reg) ELSE fn
  IN [f1 EXCEPT !.instrs = Append(@, instr)]

\* Builder::constant
const_(fn, value) == [fn EXCEPT !.consts = Append(@, value)]

declare_local(fn, name, reg) ==
  [index(fn, reg) EXCEPT !.locals[name] = Append(@, reg)]

local(fn, name) ==
  IF fn.locals[name] = <<>> THEN <<>> ELSE Some(Last(fn.locals[name]))

\* the slot of a new capture, were it taken from the HashMap's order
NewCaptureSlot_hashed(fn) == fn.capture_slot + fn.seed

\* the slot of a new capture: self.capture_slot
NewCaptureSlot(fn) == fn.capture_slot

\* Function::capture for the k-th function of the stack: the stack after
\* the call and the slot returned
RECURSIVE capture(_, _, _)
capture(fs, k, name) ==
  IF k = 1 THEN [fs |-> fs, slot |-> <<>>]
  ELSE IF local(fs[k - 1], name) = <<>>
  THEN \* return parent.capture(name)
       capture(fs, k - 1, name)
  ELSE IF fs[k].captures[name] # <<>>
  THEN [fs |-> fs, slot |-> Some(fs[k].captures[name][1].slot)]
  ELSE LET slot == NewCaptureSlot(fs[k])
       IN [fs |-> [fs EXCEPT
                     ![k].captures[name] =
                        <<[slot |-> slot,
                           register |-> local(fs[k - 1], name)[1]]>>,
                     ![k].capture_slot = @ + 1],
           slot |-> Some(slot)]

\* Expressions of the modules under test: a literal, a variable, `l + r`,
\* `n(args)`.
Lit == [k |-> "lit", n |-> "", args |-> <<>>]
Var(n) == [k |-> "var", n |-> n, args |-> <<>>]
Bin(l, r) == [k |-> "bin", n |-> "", args |-> <<l, r>>]
CallE(n, args) == [k |-> "call", n |-> n, args |-> args]

SetCur(fs, fn) == [fs EXCEPT ![Len(fs)] = fn]
CurOp(fs, op, reg, slot, name) ==
  SetCur(fs, emit_op(Last(fs), EInstr(op, reg, slot, name, <<>>)))

\* resolve_var, then LoadReg / LoadCapture / LoadGlobal
emit_get_var_expr(fs, name) ==
  IF local(Last(fs), name) # <<>>
  THEN CurOp(fs, "LoadReg", local(Last(fs), name)[1], -1, name)
  ELSE LET got == capture(fs, Len(fs), name)
       IN IF got.slot # <<>>
          THEN CurOp(got.fs, "LoadCapture", -1, got.slot[1], name)
          ELSE CurOp(SetCur(got.fs, const_(Last(got.fs), name)),
                     "LoadGlobal", -1, Len(Last(got.fs).consts), name)

RECURSIVE emit_expr(_, _)
RECURSIVE emit_args(_, _, _, _)

\* for (reg, value) in argv.zip(args): emit_expr(value); StoreReg reg
emit_args(fs, args, first, i) ==
  IF i > Len(args) THEN fs
  ELSE emit_args(CurOp(emit_expr(fs, args[i]), "StoreReg", first + i - 1,
                       -1, ""),
                 args, first, i + 1)

\* lhs into a fresh register, rhs into the accumulator, then the opcode
emit_binary_expr(fs, e) ==
  LET lhs == Last(fs).next_reg
      f1 == SetCur(fs, alloc(Last(fs)))
      f2 == CurOp(emit_expr(f1, e.args[1]), "StoreReg", lhs, -1, "")
  IN CurOp(emit_expr(f2, e.args[2]), "Add", lhs, -1, "")

RECURSIVE alloc_n(_, _)
alloc_n(fn, n) == IF n = 0 THEN fn ELSE alloc_n(alloc(fn), n - 1)
RECURSIVE index_rev(_, _, _)
index_rev(fn, first, n) ==
  IF n = 0 THEN fn ELSE index_rev(index(fn, first + n - 1), first, n - 1)

\* callee register, target, StoreReg; one register per argument, each
\* argument, StoreReg; liveness of the arguments (in reverse) and of the
\* callee; Call
emit_call_expr_regs(fs, e) ==
  LET callee == Last(fs).next_reg
      n == Len(e.args)
      f1 == SetCur(fs, alloc(Last(fs)))
      f2 == CurOp(emit_get_var_expr(f1, e.n), "StoreReg", callee, -1, "")
      first == Last(f2).next_reg
      f3 == SetCur(f2, alloc_n(Last(f2), n))
      f4 == emit_args(f3, e.args, first, 1)
      f5 == SetCur(f4, index(index_rev(Last(f4), first, n), callee))
  IN SetCur(f5, emit_op(Last(f5),
                        EInstr("Call", callee, n, "",
                               [i \in 1..n |-> first + i - 1])))

emit_expr(fs, e) ==
  CASE e.k = "lit" -> CurOp(fs, "PushSmallInt", -1, -1, "")
    [] e.k = "var" -> emit_get_var_expr(fs, e.n)
    [] e.k = "bin" -> emit_binary_expr(fs, e)
    [] OTHER -> emit_call_expr_regs(fs, e)

\* A parameter of a function statement: its name and whether it has a
\* default (a literal).
Param(name, def) == [name |-> name, def |-> def]
\* ast::Params: argv and kwargs are the names of the `*argv` and
\* `**kwargs` parameters, "" when the function has none
AstParams(pos, kw) == [pos |-> pos, kw |-> kw, argv |-> "", kwargs |-> ""]
AstParamsRest(pos, kw, argv, kwargs) ==
  [pos |-> pos, kw |-> kw, argv |-> argv, kwargs |-> kwargs]

\* if let Some(name) = rest: declare_local(name, reg)
declare_rest(fn, name, reg) ==
  IF name = "" THEN fn ELSE declare_local(fn, name, reg)

RECURSIVE emit_pos_defaults(_, _, _, _)
emit_pos_defaults(fs, pos, first, i) ==
  IF i > Len(pos) THEN fs
  ELSE IF pos[i].def
  THEN LET f1 == CurOp(fs, "IsPosParamNotSet", -1, i - 1, "")
           f2 == CurOp(f1, "JumpIfFalse", -1, -1, "")
           f3 == emit_expr(f2, Lit)
       IN emit_pos_defaults(CurOp(f3, "StoreReg", first + i - 1, -1, ""),
                            pos, first, i + 1)
  ELSE emit_pos_defaults(fs, pos, first, i + 1)

RECURSIVE emit_kw_defaults(_, _, _, _)
emit_kw_defaults(fs, kw, first, i) ==
  IF i > Len(kw) THEN fs
  ELSE LET name == Len(Last(fs).consts)
           f0 == SetCur(fs, const_(Last(fs), kw[i].name))
           reg == first + i - 1
           f1 == IF kw[i].def
                 THEN CurOp(emit_expr(CurOp(CurOp(f0, "IsKwParamNotSet", -1,
                                                  name, ""),
                                            "JumpIfFalse", -1, -1, ""),
                                      Lit),
                            "StoreReg", reg, -1, "")
                 ELSE f0
       IN emit_kw_defaults(CurOp(f1, "LoadKwParam", reg, name, ""),
                           kw, first, i + 1)

\* for ((name, _), reg) in params.iter().rev(): declare_local(name, reg)
RECURSIVE declare_rev(_, _, _, _)
declare_rev(fn, ps, first, i) ==
  IF i = 0 THEN fn
  ELSE declare_rev(declare_local(fn, ps[i].name, first + i - 1),
                   ps, first, i - 1)

\* emit_func_params that declares the locals in the order of allocation:
\* receiver, function, positional and keyword parameters
emit_func_params_forward(fs, name, params) ==
  LET receiver == Last(fs).next_reg
      this_func == receiver + 1
      pos == receiver + 4
      kw == pos + Len(params.pos)
      f1 == SetCur(fs, alloc_n(Last(fs),
                               4 + Len(params.pos) + Len(params.kw)))
      f2 == emit_pos_defaults(f1, params.pos, pos, 1)
      f3 == emit_kw_defaults(f2, params.kw, kw, 1)
      d1 == declare_local(Last(f3), "self", receiver)
      d2 == declare_local(d1, name, this_func)
      d3 == declare_rest(d2, params.argv, receiver + 2)
      d4 == declare_rest(d3, params.kwargs, receiver + 3)
      d5 == declare_rev(d4, params.pos, pos, Len(params.pos))
      d6 == declare_rev(d5, params.kw, kw, Len(params.kw))
  IN SetCur(f3, [d6 EXCEPT !.params = params])

emit_func_params(fs, name, params) ==
  LET receiver == Last(fs).next_reg
      this_func == receiver + 1
      pos == receiver + 4
      kw == pos + Len(params.pos)
      f1 == SetCur(fs, alloc_n(Last(fs),
                               4 + Len(params.pos) + Len(params.kw)))
      f2 == emit_pos_defaults(f1, params.pos, pos, 1)
      f3 == emit_kw_defaults(f2, params.kw, kw, 1)
      d1 == declare_rev(Last(f3), params.kw, kw, Len(params.kw))
      d2 == declare_rev(d1, params.pos, pos, Len(params.pos))
      k1 == declare_rest(d2, params.kwargs, receiver + 3)
      a1 == declare_rest(k1, params.argv, receiver + 2)
      d3 == declare_local(a1, name, this_func)
  IN SetCur(f3, [declare_local(d3, "self", receiver) EXCEPT
                   !.params = params])

\* The slots held, at the start of an interval at time t, by the
\* registers whose interval has not ended.
Active(access, map, t) ==
  {map[u] : u \in {w \in 1..Len(access) :
                     map[w] >= 0 /\ access[w].last >= t}}

\* Linear scan over the live ranges in the order of their first access:
\* the lowest slot no live register holds.
RECURSIVE linear_scan(_, _, _, _)
linear_scan(access, clock, t, map) ==
  IF t > clock THEN map
  ELSE IF \E v \in 1..Len(access) : access[v].first = t
  THEN LET v == CHOOSE w \in 1..Len(access) : access[w].first = t
           used == Active(access, map, t)
           slot == CHOOSE s \in 0..Len(access) :
                     s \notin used /\ \A s2 \in 0..(s - 1) : s2 \in used
       IN linear_scan(access, clock, t + 1, [map EXCEPT ![v] = slot])
  ELSE linear_scan(access, clock, t + 1, map)

\* RegAlloc::scan: (frame_size, register_map); register_map[v + 1] is the
\* slot of the virtual register v, -1 for a register never accessed
scan(fn) ==
  LET map == linear_scan(fn.access, fn.clock, 1,
                         [v \in 1..Len(fn.access) |-> -1])
      slots == {map[v] : v \in 1..Len(map)} \ {-1}
  IN [frame_size |-> Cardinality(slots), register_map |-> map]

\* the opcodes of the model whose operand patch_registers leaves alone
patch_skips == {"LoadKwParam"}

patch_registers(instructions, register_map) ==
  [i \in 1..Len(instructions) |->
     IF instructions[i].virt >= 0 /\ instructions[i].op \notin patch_skips
     THEN [instructions[i] EXCEPT
             !.reg = register_map[instructions[i].virt + 1]]
     ELSE instructions[i]]

\* the end of emit_main and of emit_func: scan, patch, build
build(fn) ==
  LET s == scan(fn)
  IN [name |-> fn.name, frame_size |-> s.frame_size,
      bytecode |-> patch_registers(fn.instrs, s.register_map),
      const_pool |-> fn.consts, register_map |-> s.register_map,
      captures |-> fn.captures, params |-> fn.params]

\* One run of the emitter: the stack of functions being emitted (the
\* `parent` chain, outermost first), the functions built so far and the
\* module variables declared so far, in insertion order.
NewRun(seed) ==
  [fs |-> <<NewFunction("main", seed)>>, out |-> <<>>, vars |-> <<>>,
   seed |-> seed, saved |-> <<>>, result |-> "ok"]

Counted(fs) == SetCur(fs, [Last(fs) EXCEPT !.stmts = @ + 1])

\* the module's variable set keeps the order of insertion
declare_module_var(mvars, name) ==
  IF \E i \in 1..Len(mvars) : mvars[i] = name THEN mvars
  ELSE Append(mvars, name)

\* the tail of emit_var_stmt and of emit_func_stmt: the accumulator goes
\* to a global in the top function, to a fresh local elsewhere
store_decl(run, fs, name) ==
  IF Len(fs) = 1
  THEN [run EXCEPT
          !.fs = CurOp(SetCur(fs, const_(Last(fs), name)), "StoreGlobal",
                       -1, Len(Last(fs).consts), name),
          !.vars = declare_module_var(@, name)]
  ELSE LET reg == Last(fs).next_reg
           f1 == CurOp(SetCur(fs, alloc(Last(fs))), "StoreReg", reg, -1, "")
       IN [run EXCEPT !.fs = SetCur(f1, declare_local(Last(f1), name, reg))]

run_var_stmt(run, name) ==
  store_decl(run, emit_expr(Counted(run.fs), Lit), name)

run_expr_stmt(run, e) == [run EXCEPT !.fs = emit_expr(Counted(run.fs), e)]

\* emit_func up to the call of its closure, then emit_func_params;
\* `saved` remembers the state that was current at the call
run_func_enter(run, name, params) ==
  [run EXCEPT
     !.fs = emit_func_params(
              Append(Counted(run.fs), NewFunction(name, run.seed)),
              name, params),
     !.saved = Append(@, Counted(run.fs))]

\* a swap back that keeps the locals of the nested function
restore_parent_leaky(fs) ==
  LET parent == SubSeq(fs, 1, Len(fs) - 1)
  IN SetCur(parent, [Last(parent) EXCEPT !.locals = Last(fs).locals])

\* emit_func after its closure has returned: self.state.parent.take() and
\* mem::replace(&mut self.state, *parent)
restore_parent(fs) == SubSeq(fs, 1, Len(fs) - 1)

\* the closure of emit_func returned an error: the state is swapped back
\* and `result?` hands the error to the caller
run_func_fail(run) ==
  [run EXCEPT !.fs = restore_parent(run.fs), !.saved = Front(@),
              !.result = "err"]

\* Ret; the rest of emit_func; the rest of emit_func_stmt
run_func_leave(run) ==
  LET f1 == CurOp(run.fs, "Ret", -1, -1, "")
      next == Last(f1)
      parent == restore_parent(f1)
      slot == Len(Last(parent).consts)
      f2 == CurOp(SetCur(parent, const_(Last(parent), next.name)),
                  "LoadConst", -1, slot, "")
  IN store_decl([run EXCEPT !.out = Append(@, build(next)),
                            !.saved = Front(@)], f2, next.name)

\* the end of emit_main
run_main_end(run) ==
  LET f1 == CurOp(run.fs, "Ret", -1, -1, "")
  IN IF run.result = "err" THEN [run EXCEPT !.fs = <<>>]
     ELSE [run EXCEPT !.fs = <<>>, !.out = Append(@, build(f1[1]))]

EmitFamilies == {"capture", "call", "params", "shadow"}
FuncName(d) == <<"f1", "f2", "f3">>[d]

\* The statements of the modules under test, by family and by the
\* nesting depth d of the function they stand in (1: the module).
VarNames(family, d) ==
  CASE family = "capture" /\ d \in {1, 2} -> {"x"}
    [] family = "capture" /\ d = 3 -> {"y"}
    [] family = "call" /\ d = 2 -> {"x", "y"}
    [] OTHER -> {}

Exprs(family, d) ==
  CASE family = "capture" /\ d >= 3 -> {Var("x"), Var("y")}
    [] family = "call" /\ d = 2 ->
         {Var("x"), Var("y"), CallE("g", <<Lit>>),
          CallE("g", <<Lit, Var("y")>>),
          CallE("g", <<Bin(Var("x"), Lit)>>),
          CallE("g", <<CallE("g", <<Lit>>)>>)}
    [] family = "params" /\ d = 2 -> {Var("p"), Var("k")}
    [] family = "shadow" /\ d = 2 -> {Var("p"), Var("f1"), Var("self")}
    [] OTHER -> {}

ParamLists(name) ==
  {<<>>, <<Param(name, FALSE)>>, <<Param(name, TRUE)>>}

\* parameter lists whose names meet each other, the function's name (f1)
\* and `self`
ShadowLists ==
  {<<>>} \cup {<<Param(n, FALSE)>> : n \in {"p", "f1", "self"}}

FuncParams(family, d) ==
  CASE family = "capture" /\ d <= MaxNest -> {AstParams(<<>>, <<>>)}
    [] family = "call" /\ d = 1 -> {AstParams(<<>>, <<>>)}
    [] family = "params" /\ d = 1 ->
         {AstParams(pos, kw) : pos \in ParamLists("p"),
                               kw \in ParamLists("k")}
    [] family = "shadow" /\ d = 1 ->
         {AstParamsRest(pos, kw, argv, kwargs) :
            pos \in ShadowLists, kw \in ShadowLists,
            argv \in {"", "p"}, kwargs \in {"", "p"}}
    [] OTHER -> {}

Emitting ==
  /\ em # <<>>
  /\ em.runs[1].fs # <<>>
  /\ UNCHANGED <<call_frames, stack, stack_base, acc, pc, registry, next_id,
                 visited, heap, native, status, code, root_runs, program,
                 functions, globals, module_vars, lst, conv, indent, ev>>

Depth == Len(em.runs[1].fs)
StmtBudget(family, d) ==
  CASE family = "call" /\ d = 2 -> MaxStmts
    [] family \in {"call", "params", "shadow"} /\ d = 1 -> MaxBody - 1
    [] OTHER -> MaxBody
MoreStmts ==
  /\ em.runs[1].result = "ok"
  /\ Last(em.runs[1].fs).stmts < StmtBudget(em.family, Depth)
Both(op(_)) == em' = [em EXCEPT !.runs = <<op(em.runs[1]), op(em.runs[2])>>]

emit_var_stmt ==
  /\ Emitting /\ MoreStmts
  /\ \E name \in VarNames(em.family, Depth) :
       LET op(run) == run_var_stmt(run, name) IN Both(op)

emit_expr_stmt ==
  /\ Emitting /\ MoreStmts
  /\ \E e \in Exprs(em.family, Depth) :
       LET op(run) == run_expr_stmt(run, e) IN Both(op)

\* a body of the modules under test declares at most one function
NoFuncYet ==
  LET fn == Last(em.runs[1].fs)
  IN \A i \in 1..Len(fn.consts) : fn.consts[i] # FuncName(Depth)

emit_func_stmt ==
  /\ Emitting /\ MoreStmts /\ Depth <= MaxNest /\ NoFuncYet
  /\ \E params \in FuncParams(em.family, Depth) :
       LET op(run) == run_func_enter(run, FuncName(Depth), params)
       IN Both(op)

\* the closure returns Ok(()) or an error; an error of a nested function
\* is the error of the enclosing one
emit_func ==
  /\ Emitting /\ Depth > 1
  /\ \/ em.runs[1].result = "ok" /\ Both(run_func_leave)
     \/ Both(run_func_fail)

emit_main ==
  /\ Emitting /\ Depth = 1
  /\ Both(run_main_end)

\* Emitter::new for two runs over the same module; the maps of the second
\* run hash with their own keys
InitEmit ==
  /\ call_frames = <<>>
  /\ stack = <<>>
  /\ stack_base = 0
  /\ acc = None
  /\ pc = 0
  /\ registry = [p \in Paths |-> 0]
  /\ next_id = 1
  /\ visited = {}
  /\ heap = <<>>
  /\ native = <<>>
  /\ status = "idle"
  /\ code = <<>>
  /\ root_runs = [i \in 1..MaxModuleId |-> 0]
  /\ program = "call"
  /\ functions = <<>>
  /\ globals = [n \in GlobalNames |-> Absent]
  /\ module_vars = [i \in 1..MaxModuleId |-> NewModuleVars]
  /\ lst = <<>>
  /\ conv = <<>>
  /\ indent = <<>>
  /\ ev = Ev("new", None, <<>>, 0, "")
  /\ \E family \in EmitFamilies, seed \in {0, 1} :
       em = [family |-> family, runs |-> <<NewRun(0), NewRun(seed)>>]

NextEmit ==
  \/ emit_var_stmt
  \/ emit_expr_stmt
  \/ emit_func_stmt
  \/ emit_func
  \/ emit_main

SpecEmit == InitEmit /\ [][NextEmit]_vars

-----------------------------------------------------------------------------
(* Properties of the receiver register.                                    *)

\* C27: when the callee of a Call or Call0 instruction is a plain Function
\* (not a ClassMethod, not a class), register 0 of the new frame holds none
\* when the callee starts, for zero arguments and for one or more
\* arguments alike.
C27_FreeFunctionSelf ==
  (/\ ev.op = "enter"
   /\ ev.callee.t = "fn"
   /\ ev.via \in {"call", "call0"}) =>
    get_register(stack, stack_base, 0) = None

-----------------------------------------------------------------------------
(* Properties of modules and module variables.                             *)

\* the ids of the modules whose import is in progress: load_module has
\* called the root function and has not yet seen it return
Importing ==
  {native[i].id : i \in {j \in 1..Len(native) : native[j].kind = "import"}}

ModuleVarOps == {"load_module_var", "store_module_var"}

\* C28: the import of a module that is not in the registry puts the module
\* into the registry and its id into the visited set before the first
\* instruction of its root function executes, and the module stays
\* registered while the import is in progress, so no LoadModuleVar or
\* StoreModuleVar the root function or a function of the module executes
\* fails to find the module.
C28_RegisteredBeforeRoot ==
  /\ [][ev'.op = "import_load" =>
          /\ registry[ev'.via] = 0
          /\ registry'[ev'.via] = ev'.callee.a
          /\ ev'.callee.a \in visited'
          /\ Last(call_frames').func = Fn(RootFn, ev'.callee.a)
          /\ pc' = 0 /\ code' = <<>>]_vars
  /\ [](\A id \in Importing : get_by_id(registry, id))
  /\ [](ev.op = "module_var_error" => ev.callee.a \notin Importing)

C28_Witness ==
  /\ ev.op = "store_module_var"
  /\ ev.callee.a \in Importing
  /\ CurFn = 12

\* C29: the visited set is a subset of the ids in the registry; an id is
\* in the visited set exactly while its module's root function is being
\* run by an import; with no import in progress the visited set is empty,
\* also after imports that failed and after nested imports.
C29_Visited ==
  /\ \A id \in visited : get_by_id(registry, id)
  /\ visited = Importing
  /\ native = <<>> => visited = {}

C29_Witness ==
  /\ ev.op = "import_error"
  /\ native = <<>>
  /\ registry["a"] # 0
  /\ registry["b"] = 0

\* C30: LoadModuleVar and StoreModuleVar address the table of the module
\* whose code created the running function, never the caller's: every
\* frame carries the module id of its function, MakeFn gives a function
\* the module id of the frame that creates it, and the two handlers read
\* and write the table of that module only.
C30_OwnModule ==
  /\ [](\A k \in 1..Len(call_frames) :
          call_frames[k].module_id = call_frames[k].func.b)
  /\ [][ev'.op = "make_fn" => acc'.b = Last(call_frames).module_id]_vars
  /\ [][(ev'.op \in ModuleVarOps \/ ev'.op = "module_var_error") =>
          ev'.callee = Module(Last(call_frames).func.b)]_vars
  /\ [][ev'.op = "load_module_var" =>
          acc' = module_vars[Last(call_frames).func.b][1]]_vars
  /\ [][module_vars' # module_vars =>
          /\ ev'.op = "store_module_var"
          /\ module_vars' =
               [module_vars EXCEPT ![Last(call_frames).func.b][1] = acc]]_vars

C30_Witness ==
  /\ ev.op = "store_module_var"
  /\ Len(call_frames) >= 2
  /\ call_frames[Len(call_frames) - 1].module_id \notin {0, ev.callee.a}

\* frame.rs get_parts: the outcome of creating a frame for a callable, for
\* the Frame that takes its module from the registry when it is created
get_parts(reg, callable) ==
  IF callable.t \notin {"fn"} THEN "panic"
  ELSE IF callable.b # 0 /\ ~get_by_id(reg, callable.b) THEN "error"
  ELSE "ok"

\* the modules that were created and are no longer in the registry
Removed == {id \in 1..(next_id - 1) : ~get_by_id(registry, id)}

\* C31: once a failed import has removed module M from the registry, a
\* function owned by M that is still reachable cannot run against the
\* missing module: its access to a module variable fails with a runtime
\* error (the thread unwinds, it does not panic), no module-variable table
\* changes, the id of M is never given to another module, and a frame
\* that takes its module from the registry cannot be created for it.
C31_BrokenModule ==
  /\ [][(/\ call_frames # <<>>
          /\ Last(call_frames).module_id \in Removed
          /\ ev'.op \in ModuleVarOps \cup {"module_var_error"}) =>
          /\ ev'.op = "module_var_error"
          /\ ev'.callee = Module(Last(call_frames).module_id)
          /\ status' = "unwind"
          /\ module_vars' = module_vars]_vars
  /\ [][Removed \subseteq Removed']_vars
  /\ [](\A k \in 1..Len(call_frames) :
          call_frames[k].module_id \in Removed =>
            get_parts(registry, call_frames[k].func) = "error")

C31_Witness ==
  /\ ev.op = "module_var_error"
  /\ ev.callee.a \in Removed
  /\ CurFn = 12
  /\ status = "unwind"

-----------------------------------------------------------------------------
(* Properties of `super`.                                                  *)

\* register 0 holds no instance or proxy, or one whose class has no parent
NoSuper(this) ==
  \/ this.t \notin {"proxy", "inst"}
  \/ this.t = "proxy" /\ ClassParent(this.c) = 0
  \/ this.t = "inst" /\ InstParent(this.a) = 0

\* C34: LoadSuper executed when register 0 holds an instance or proxy
\* whose class has no parent, or a value that is not an object, fails
\* with a runtime error that propagates; it does not panic.
C34_LoadSuperFails ==
  [][(/\ Running
      /\ ev'.op \in {"load_super", "load_super_error", "load_super_panic"}
      /\ ev'.depth = Len(call_frames)
      /\ NoSuper(get_register(stack, stack_base, 0))) =>
       (ev'.op = "load_super_error" /\ status' = "unwind")]_vars

-----------------------------------------------------------------------------
(* Properties of upvalues and conditional jumps.                           *)

\* C36: JumpIfFalse with its offset in the constant pool and JumpIfFalse
\* with an inline offset decide alike: either falls through to the next
\* instruction exactly when the accumulator is truthy, and passes over
\* the offset otherwise.
C36_JumpEncodingsAgree ==
  [][ev'.op \in {"jump_if_false", "jump_if_false_const"} =>
       (pc' = pc + 1 <=> is_truthy(acc))]_vars

\* the Function object the running frame was made for (0: it has no
\* upvalues)
CurClosure == Last(call_frames).func.c

\* C35: the upvalue List belongs to the Function object.  The List of a
\* Function changes only by a StoreUpvalue executed in a frame of that
\* very Function, which writes the accumulator into the slot and leaves
\* the stack (the register the value was captured from) and the List of
\* every other Function (its parent's, and other Functions made from the
\* same descriptor) as they are; LoadUpvalue reads the List of the running
\* Function, so a later invocation of the Function observes the store.
C35_UpvaluesPerClosure ==
  /\ [][\A k \in DOMAIN functions :
          functions'[k] # functions[k] =>
            /\ ev'.op = "store_upvalue"
            /\ CurClosure = k
            /\ functions'[k] = [functions[k] EXCEPT !.upvalues[1] = acc]]_vars
  /\ [][ev'.op = "store_upvalue" => stack' = stack]_vars
  /\ [][(/\ ev'.op = "load_upvalue"
          /\ call_frames # <<>>
          /\ CurClosure # 0
          /\ status' = "run") =>
          acc' = functions[CurClosure].upvalues[1]]_vars

\* the second invocation of a Function starts by loading the value its
\* first invocation stored
C35_Witness ==
  /\ ev.op = "load_upvalue"
  /\ call_frames # <<>>
  /\ CurFn = 10
  /\ pc = 1
  /\ acc = IntV(7)
  /\ functions[CurClosure].upvalues = <<IntV(7)>>

-----------------------------------------------------------------------------
(* Properties of the embedding interface.                                  *)

\* C23: every failure of eval is returned to the caller, as
\* EvalError::Parse or EvalError::Runtime; eval never panics.
C23_EvalNeverPanics ==
  /\ status # "panic"
  /\ ev.op = "eval_error" => ev.via \in {"Parse", "Runtime"}

\* C24: the globals table changes only by StoreGlobal, which sets the
\* name it stores to the accumulator; LoadGlobal of a name returns the
\* value the table holds for it, from any frame and in any later call of
\* the embedder, and fails with an undefined-global error exactly when
\* the name was never stored.
C24_Globals ==
  /\ [][globals' # globals
          => /\ ev'.op = "store_global"
             /\ globals' = [globals EXCEPT ![ev'.via] = acc]]_vars
  /\ [][ev'.op = "load_global"
          => /\ globals[ev'.via] # Absent
             /\ acc' = globals[ev'.via]
             /\ status' = "run"]_vars
  /\ [][ev'.op = "undefined_global"
          => /\ globals[ev'.via] = Absent
             /\ status' = "unwind"]_vars

\* the first instruction of a root function loads a global: the value was
\* stored by an earlier call of the embedder
C24_Witness ==
  /\ ev.op = "load_global" /\ ev.via = "n"
  /\ Len(call_frames) = 1 /\ pc = 1
  /\ acc = IntV(2)

-----------------------------------------------------------------------------
(* Properties of the logical operators.                                    *)

\* the statement the thread is in the middle of, by the span of its last
\* instruction
InLogic(ops) == code # <<>> /\ Last(code).op = "Print" /\ Last(code).v.t \in ops
\* the next instruction to execute belongs to the operand on the right
RhsNext == Head(code).s = "rhs"
LeftOf(span) == LogicValues[span.a]
RightOf(span) == LogicValues[span.b]

\* C21: `a && b` is a when a is falsy and b otherwise, `a || b` is a when
\* a is truthy and b otherwise, and b is not evaluated when a decides.
C21_AndOr ==
  /\ (ev.op = "print" /\ ev.callee.t = "and")
       => ev.args[1] = IF is_truthy(LeftOf(ev.callee))
                       THEN RightOf(ev.callee) ELSE LeftOf(ev.callee)
  /\ (ev.op = "print" /\ ev.callee.t = "or")
       => ev.args[1] = IF is_truthy(LeftOf(ev.callee))
                       THEN LeftOf(ev.callee) ELSE RightOf(ev.callee)
  /\ (InLogic({"and"}) /\ ~is_truthy(LeftOf(Last(code).v)))
       => ~RhsNext
  /\ (InLogic({"or"}) /\ is_truthy(LeftOf(Last(code).v)))
       => ~RhsNext

\* C22: `a ?? b` is a when a is not none, without evaluating b, and b
\* when a is none.
C22_Maybe ==
  /\ (ev.op = "print" /\ ev.callee.t = "maybe")
       => ev.args[1] = IF LeftOf(ev.callee) # None
                       THEN LeftOf(ev.callee) ELSE RightOf(ev.callee)
  /\ (InLogic({"maybe"}) /\ LeftOf(Last(code).v) # None)
       => ~RhsNext

(***************************************************************************)
(* Claims about the emitter                                                *)
(***************************************************************************)

\* the function stacks of the two runs
EmitStacks == {em.runs[1].fs, em.runs[2].fs}

\* the nearest enclosing function of fs[k] that declares `name`
Declaring(fs, k, name) ==
  CHOOSE j \in 1..(k - 1) :
    /\ local(fs[j], name) # <<>>
    /\ \A j2 \in (j + 1)..(k - 1) : local(fs[j2], name) = <<>>

NumCaptures(fn) == Cardinality({n \in EmitNames : fn.captures[n] # <<>>})

\* C16: a function that loads a variable of an enclosing function through
\* a capture has exactly one capture entry for that name, the slot of the
\* load is the slot of that entry and is less than the number of its
\* captures, and every function between it and the declaring function
\* has an entry for the name as well.
C16_CaptureEntries ==
  \A fs \in EmitStacks : \A k \in 1..Len(fs) : \A i \in 1..Len(fs[k].instrs) :
    LET ins == fs[k].instrs[i]
    IN ins.op = "LoadCapture" =>
         /\ Len(fs[k].captures[ins.name]) = 1
         /\ ins.slot = fs[k].captures[ins.name][1].slot
         /\ ins.slot < NumCaptures(fs[k])
         /\ \A m \in (Declaring(fs, k, ins.name) + 1)..k :
              fs[m].captures[ins.name] # <<>>

\* the functions the two runs have built
Emitted ==
  {em.runs[r].out[i] : r \in {1}, i \in 1..Len(em.runs[1].out)}
    \cup {em.runs[2].out[i] : i \in 1..Len(em.runs[2].out)}

\* C17: in an emitted function every register operand, the register of
\* the keyword-parameter load included, is the physical register the
\* assignment map gives to its virtual register, and lies in
\* [0, frame_size).
C17_OperandsPatched ==
  \A fn \in Emitted : \A i \in 1..Len(fn.bytecode) :
    LET ins == fn.bytecode[i]
    IN ins.virt >= 0 =>
         /\ ins.reg = fn.register_map[ins.virt + 1]
         /\ ins.reg >= 0 /\ ins.reg < fn.frame_size

\* C18: in an emitted function, a call with n >= 1 positional arguments
\* has its callee in a physical register c and its argument i (from 0) in
\* the physical register c + 1 + i.
C18_ArgsFollowCallee ==
  \A fn \in Emitted : \A i \in 1..Len(fn.bytecode) :
    LET ins == fn.bytecode[i]
    IN (ins.op = "Call" /\ Len(ins.argv) >= 1) =>
         \A a \in 1..Len(ins.argv) :
           fn.register_map[ins.argv[a] + 1] = ins.reg + a

\* C26: in every emitted function the parameters hold the lowest physical
\* registers in order: 0 the receiver, 1 the function itself, 2 the
\* varargs slot, 3 the kwargs slot, then the positional parameters in
\* declaration order, then the keyword parameters, whether or not the
\* prologue evaluates default values.
NumParams(fn) == 4 + Len(fn.params.pos) + Len(fn.params.kw)
C26_ParamRegisters ==
  \A fn \in Emitted :
    fn.name # "main" =>
      \A v \in 0..(NumParams(fn) - 1) : fn.register_map[v + 1] = v

\* the register a name of the prologue stands for: the declaration made
\* last among keyword parameters, positional parameters, kwargs, varargs,
\* the function itself and the receiver
PrologueNames(fn) ==
  {fn.params.pos[i].name : i \in 1..Len(fn.params.pos)}
    \cup {fn.params.kw[i].name : i \in 1..Len(fn.params.kw)}
    \cup ({fn.params.argv, fn.params.kwargs} \ {""})
    \cup {fn.name, "self"}
PrologueReg(fn, name) ==
  IF name = "self" THEN 0
  ELSE IF name = fn.name THEN 1
  ELSE IF name = fn.params.argv THEN 2
  ELSE IF name = fn.params.kwargs THEN 3
  ELSE IF \E i \in 1..Len(fn.params.pos) : fn.params.pos[i].name = name
  THEN 3 + (CHOOSE i \in 1..Len(fn.params.pos) :
              fn.params.pos[i].name = name)
  ELSE 3 + Len(fn.params.pos)
         + (CHOOSE i \in 1..Len(fn.params.kw) : fn.params.kw[i].name = name)

\* the functions being emitted that have run their parameter prologue
InPrologue(fs) == {fs[k] : k \in 2..Len(fs)}

\* C33: after the parameter prologue a name declared more than once among
\* the prologue names resolves to the declaration made last in the order
\* keyword parameters, positional parameters, kwargs, varargs,
\* function-self, receiver:
\* `self` is the receiver register, the function's own name the
\* function-self register even when a parameter has that name, and a use
\* of such a name in the body loads that register.
C33_PrologueShadowing ==
  \A fs \in EmitStacks : \A fn \in InPrologue(fs) :
    /\ \A name \in PrologueNames(fn) :
         local(fn, name) = Some(PrologueReg(fn, name))
    /\ \A i \in 1..Len(fn.instrs) :
         (fn.instrs[i].op = "LoadReg"
            /\ fn.instrs[i].name \in PrologueNames(fn)) =>
           fn.instrs[i].virt = PrologueReg(fn, fn.instrs[i].name)

C33_Witness ==
  /\ em.family = "shadow"
  /\ Len(em.runs[1].fs) = 2
  /\ LET fn == em.runs[1].fs[2]
     IN /\ fn.params.pos = <<Param("f1", FALSE)>>
        /\ fn.params.kw = <<Param("self", FALSE)>>
        /\ fn.params.argv = "p" /\ fn.params.kwargs = "p"
        /\ local(fn, "p") = Some(2)
        /\ \E i \in 1..Len(fn.instrs) :
             fn.instrs[i].op = "LoadReg" /\ fn.instrs[i].name = "f1"
                /\ fn.instrs[i].virt = 1
        /\ \E i \in 1..Len(fn.instrs) :
             fn.instrs[i].op = "LoadReg" /\ fn.instrs[i].name = "self"
                /\ fn.instrs[i].virt = 0

\* what a run has produced: the functions built, the module variables,
\* a step in which emit_func returns
Leaving == Depth > 1 /\ em'.runs[1].fs # <<>> /\ Len(em'.runs[1].fs) < Depth

\* C37: emit_func leaves the state of the enclosing functions as it was
\* when it was called, whether its closure succeeded or returned an error
\* and at any depth: locals, captures, instructions and registers of the
\* nested function are not in the enclosing function, and a name declared
\* only in the nested function is no local afterwards.
C37_StateRestored ==
  [][Leaving =>
       \A i \in {1, 2} :
         LET run == em.runs[i]
             restored == restore_parent(run.fs)
         IN /\ restored = Last(run.saved)
            /\ em'.runs[i].result = "err" => em'.runs[i].fs = restored
            /\ \A n \in EmitNames :
                 local(Last(Last(run.saved)), n) = <<>> =>
                   local(Last(restored), n) = <<>>]_vars

\* as C37, but the enclosing functions may have gained captures: a name
\* the nested function took from further out is captured by every
\* function in between.  Captures they had are kept, and a new one is of
\* a name that is no local of the function that gained it.
SameButCaptures(was, now) ==
  /\ [now EXCEPT !.captures = was.captures,
                 !.capture_slot = was.capture_slot] = was
  /\ now.capture_slot >= was.capture_slot
  /\ \A n \in EmitNames :
       IF was.captures[n] # <<>> THEN now.captures[n] = was.captures[n]
       ELSE now.captures[n] # <<>> => local(now, n) = <<>>
C37_StateRestoredButCaptures ==
  [][Leaving =>
       \A i \in {1, 2} :
         LET run == em.runs[i]
             restored == restore_parent(run.fs)
         IN /\ Len(restored) = Len(Last(run.saved))
            /\ \A j \in 1..Len(restored) :
                 SameButCaptures(Last(run.saved)[j], restored[j])
            /\ em'.runs[i].result = "err" => em'.runs[i].fs = restored
            /\ \A n \in EmitNames :
                 local(Last(Last(run.saved)), n) = <<>> =>
                   local(Last(restored), n) = <<>>]_vars

\* the closure of f3 failed after reading a variable of f1: f2, current
\* again, has its local and has gained the capture
C37_Witness ==
  /\ em # <<>>
  /\ em.runs[1].result = "err"
  /\ Len(em.runs[1].fs) = 3
  /\ Last(em.runs[1].fs).captures["x"] # <<>>
  /\ local(Last(em.runs[1].fs), "y") # <<>>
  /\ Len(em.runs[1].saved) = 2

\* and the bytecode, constants and capture slots of the functions still
\* being emitted
Emission(run) ==
  [out |-> run.out, vars |-> run.vars,
   pending |-> [k \in 1..Len(run.fs) |->
                  [instrs |-> run.fs[k].instrs, consts |-> run.fs[k].consts,
                   captures |-> run.fs[k].captures]]]

-----------------------------------------------------------------------------
(* List indexing (object/list.rs): to_index and the keyed field accessors, *)
(* applied to lists and integer keys drawn from bounded sets.              *)
(* Widths are scaled: the key is an i32 in the code and the index a        *)
(* 64-bit usize; the model keeps the 1:2 ratio and the same conversions.   *)

MaxLen == 3
I32Bits == 6
UsizeBits == 12

I32Min == -(2 ^ (I32Bits - 1))
I32Max == 2 ^ (I32Bits - 1) - 1
UsizeMod == 2 ^ UsizeBits

\* overflow checks are on in a debug build and off in a release build
Builds == {"debug", "release"}

Panicked == [res |-> "panic", v |-> Absent]
Failed(msg) == [res |-> msg, v |-> Absent]
Done(v) == [res |-> "ok", v |-> v]

\* -index on an i32: overflows for the most negative value
neg_overflows(key) == key = I32Min
wrapping_neg(key) == IF neg_overflows(key) THEN key ELSE -key
\* `as usize` of an i32 sign-extends
as_usize(i) == i % UsizeMod

to_index(key, len, checks) ==
  IF key < 0
    THEN LET off == as_usize(wrapping_neg(key))
         IN IF checks = "debug" /\ (neg_overflows(key) \/ off > len)
              THEN Panicked
              ELSE Done((len - off) % UsizeMod)
    ELSE Done(as_usize(key))

List_get(data, i) == IF i < Len(data) THEN Done(data[i + 1]) ELSE Failed("none")
List_set(data, i, value) ==
  IF i < Len(data) THEN [data EXCEPT ![i + 1] = value] ELSE data

List_keyed_field(data, key, checks) ==
  LET i == to_index(key, Len(data), checks)
  IN IF i.res # "ok" THEN i
     ELSE IF List_get(data, i.v).res = "ok" THEN List_get(data, i.v)
     ELSE Failed("index out of bounds")

List_set_keyed_field(data, key, value, checks) ==
  LET i == to_index(key, Len(data), checks)
  IN IF i.res # "ok" THEN [out |-> i, data |-> data]
     ELSE IF i.v < Len(data)
       THEN [out |-> Done(None), data |-> List_set(data, i.v, value)]
       ELSE [out |-> Failed("index out of bounds"), data |-> data]

Elem(k) == IntV(k)
Stored == IntV(0)

\* the names the field lookups are tried with: the builtin methods of a
\* list and two names that are none
ListMethods == <<"len", "is_empty", "get", "set", "push", "pop", "join">>
ListFieldNames == {ListMethods[i] : i \in DOMAIN ListMethods} \cup {"size", ""}
BuiltinMethod(name) ==
  [t |-> "builtin_method",
   a |-> CHOOSE i \in DOMAIN ListMethods : ListMethods[i] = name,
   b |-> 0, c |-> 0]

\* List::named_field
List_named_field(name) ==
  IF \E i \in DOMAIN ListMethods : ListMethods[i] = name
  THEN Done(BuiltinMethod(name))
  ELSE Failed("has no field")

\* List::named_field_opt
List_named_field_opt(name) ==
  IF name = "len" THEN Done(BuiltinMethod(name)) ELSE Done(None)

InitList ==
  /\ call_frames = <<>>
  /\ stack = <<>>
  /\ stack_base = 0
  /\ acc = None
  /\ pc = 0
  /\ registry = [p \in Paths |-> 0]
  /\ next_id = 1
  /\ visited = {}
  /\ heap = <<>>
  /\ native = <<>>
  /\ status = "idle"
  /\ code = <<>>
  /\ root_runs = [i \in 1..MaxModuleId |-> 0]
  /\ program = "call"
  /\ functions = <<>>
  /\ globals = [n \in GlobalNames |-> Absent]
  /\ module_vars = [i \in 1..MaxModuleId |-> NewModuleVars]
  /\ em = <<>>
  /\ conv = <<>>
  /\ indent = <<>>
  /\ ev = Ev("new", None, <<>>, 0, "")
  /\ \E n \in 0..MaxLen, key \in I32Min..I32Max, checks \in Builds :
       lst = [old |-> [k \in 1..n |-> Elem(k)], data |-> [k \in 1..n |-> Elem(k)],
              key |-> key, checks |-> checks, op |-> "new", out |-> Done(None),
              name |-> ""]

Indexing ==
  /\ lst # <<>>
  /\ lst.op = "new"
  /\ UNCHANGED <<call_frames, stack, stack_base, acc, pc, registry, next_id,
                 visited, heap, native, status, code, root_runs, program,
                 functions, globals, module_vars, em, conv, indent, ev>>

\* op_load_index on a list: List::keyed_field
list_load_index ==
  /\ Indexing
  /\ lst' = [lst EXCEPT !.op = "load",
                        !.out = List_keyed_field(lst.data, lst.key, lst.checks)]

\* op_store_index on a list: List::set_keyed_field
list_store_index ==
  /\ Indexing
  /\ LET r == List_set_keyed_field(lst.data, lst.key, Stored, lst.checks)
     IN lst' = [lst EXCEPT !.op = "store", !.out = r.out, !.data = r.data]

\* op_load_field on a list: List::named_field
list_load_field ==
  /\ Indexing
  /\ \E name \in ListFieldNames :
       lst' = [lst EXCEPT !.op = "field", !.name = name,
                          !.out = List_named_field(name)]

\* op_load_field_opt on a list: List::named_field_opt
list_load_field_opt ==
  /\ Indexing
  /\ \E name \in ListFieldNames :
       lst' = [lst EXCEPT !.op = "field_opt", !.name = name,
                          !.out = List_named_field_opt(name)]

NextList ==
  \/ list_load_index
  \/ list_store_index
  \/ list_load_field
  \/ list_load_field_opt

SpecList == InitList /\ [][NextList]_vars

\* C25: for a list of length n and an integer index i, indexing reads or
\* writes element i when 0 <= i < n and element n+i when -n <= i < 0; for
\* every other i (the most negative integer included) a read or a write
\* fails with the index-out-of-bounds error, without wrapping around,
\* panicking or changing the list.
Slot(n, i) == IF i < 0 THEN n + i + 1 ELSE i + 1
C25_ListIndex ==
  (lst # <<>> /\ lst.op \in {"load", "store"}) =>
    LET n == Len(lst.old)
        i == lst.key
    IN IF -n <= i /\ i < n
         THEN /\ lst.out.res = "ok"
              /\ lst.op = "load" =>
                   lst.out.v = lst.old[Slot(n, i)] /\ lst.data = lst.old
              /\ lst.op = "store" =>
                   lst.data = [lst.old EXCEPT ![Slot(n, i)] = Stored]
         ELSE /\ lst.out.res = "index out of bounds"
              /\ lst.data = lst.old


\* C38: on a list the optional and the plain named-field lookup know the
\* same names: for a builtin method name (len, is_empty, get, set, push,
\* pop, join) both return that method, for any other name the plain
\* lookup fails and the optional one returns none.
C38_NamedFieldAgree ==
  (lst # <<>> /\ lst.op \in {"field", "field_opt"}) =>
    IF \E i \in DOMAIN ListMethods : ListMethods[i] = lst.name
    THEN lst.out = Done(BuiltinMethod(lst.name))
    ELSE IF lst.op = "field"
      THEN lst.out.res \notin {"ok", "panic"}
      ELSE lst.out = Done(None)

-----------------------------------------------------------------------------
(* Optional expressions in the emitter (emit/expr.rs): `?e` sets           *)
(* Function.is_in_opt_expr while e is lowered.  The statements of one      *)
(* function are lowered one after the other on the same Function state.    *)

MaxOptStmts == 2

GetField(target, name) == [k |-> "field", n |-> name, args |-> <<target>>]
GetIndex(target, key) == [k |-> "index", n |-> key, args |-> <<target>>]
Opt(right) == [k |-> "opt", n |-> "", args |-> <<right>>]

\* Function::new as far as the accesses go
NewOptFunction == [is_in_opt_expr |-> FALSE, next_reg |-> 0, instrs |-> <<>>]

RECURSIVE emit_access_expr(_, _)

\* emit_opt_expr that leaves the flag set
emit_opt_expr_sticky(fn, expr) ==
  emit_access_expr([fn EXCEPT !.is_in_opt_expr = TRUE], expr.args[1])

\* prev = replace(is_in_opt_expr, true); emit_expr(right); restore prev
emit_opt_expr(fn, expr) ==
  LET prev == fn.is_in_opt_expr
      f1 == emit_access_expr([fn EXCEPT !.is_in_opt_expr = TRUE],
                             expr.args[1])
  IN [f1 EXCEPT !.is_in_opt_expr = prev]

\* emit_expr on a variable, a field access, an index access or `?e`; the
\* flag is read after the target has been lowered
emit_access_expr(fn, e) ==
  CASE e.k = "var" -> [fn EXCEPT !.instrs = @ \o LoadX(RootFn)]
    [] e.k = "field" ->
         LET f1 == emit_access_expr(fn, e.args[1])
         IN [f1 EXCEPT
               !.instrs = emit_get_field_expr(@, f1.is_in_opt_expr, e.n)]
    [] e.k = "index" ->
         LET object == fn.next_reg
             f1 == emit_access_expr([fn EXCEPT !.next_reg = @ + 1],
                                    e.args[1])
         IN [f1 EXCEPT
               !.instrs = emit_get_index_expr(@, object, f1.is_in_opt_expr,
                                              e.n)]
    [] OTHER -> emit_opt_expr(fn, e)

\* the expressions of the statements: accesses of v one and two deep,
\* `?` around them, and accesses of and around a `?` expression
Accesses(targets) ==
  {GetField(t, "a") : t \in targets} \cup {GetIndex(t, "a") : t \in targets}
OptExprs ==
  LET a1 == Accesses({Var("v")})
      a2 == Accesses(a1)
      o1 == {Opt(e) : e \in a1}
      ao == Accesses(o1)
  IN a1 \cup a2 \cup o1 \cup {Opt(e) : e \in a2} \cup ao
       \cup {Opt(e) : e \in ao}

InitOpt ==
  /\ call_frames = <<>>
  /\ stack = <<>>
  /\ stack_base = 0
  /\ acc = None
  /\ pc = 0
  /\ registry = [p \in Paths |-> 0]
  /\ next_id = 1
  /\ visited = {}
  /\ heap = <<>>
  /\ native = <<>>
  /\ status = "idle"
  /\ code = <<>>
  /\ root_runs = [i \in 1..MaxModuleId |-> 0]
  /\ program = "opt"
  /\ functions = <<>>
  /\ globals = [n \in GlobalNames |-> Absent]
  /\ module_vars = [i \in 1..MaxModuleId |-> NewModuleVars]
  /\ lst = <<>>
  /\ conv = <<>>
  /\ indent = <<>>
  /\ ev = Ev("new", None, <<>>, 0, "")
  /\ em = [fn |-> NewOptFunction, stmts |-> <<>>, flags |-> <<>>]

\* emit_stmt of `print e`: the expression, then Print
emit_print_stmt ==
  /\ Len(em.stmts) < MaxOptStmts
  /\ \E e \in OptExprs :
       LET f1 == emit_access_expr(em.fn, e)
       IN em' = [fn |-> [f1 EXCEPT !.instrs =
                           Append(@, Ins("Print", 0, 0, None, ""))],
                 stmts |-> Append(em.stmts, e),
                 flags |-> Append(em.flags, f1.is_in_opt_expr)]
  /\ UNCHANGED <<call_frames, stack, stack_base, acc, pc, registry, next_id,
                 visited, heap, native, status, code, root_runs, program,
                 functions, globals, module_vars, lst, conv, indent, ev>>

NextOpt == emit_print_stmt

SpecOpt == InitOpt /\ [][NextOpt]_vars

\* the opcodes an expression lowers to, given whether it stands inside a
\* `?` expression
RECURSIVE Lowered(_, _)
Lowered(e, inside) ==
  CASE e.k = "var" -> <<"Load">>
    [] e.k = "field" ->
         Append(Lowered(e.args[1], inside),
                IF inside THEN "LoadFieldOpt" ELSE "LoadField")
    [] e.k = "index" ->
         Lowered(e.args[1], inside)
           \o <<"Store", "LoadConst",
                IF inside THEN "LoadIndexOpt" ELSE "LoadIndex">>
    [] OTHER -> Lowered(e.args[1], TRUE)

RECURSIVE LoweredStmts(_)
LoweredStmts(stmts) ==
  IF stmts = <<>> THEN <<>>
  ELSE LoweredStmts(Front(stmts)) \o Lowered(Last(stmts), FALSE)
         \o <<"Print">>

\* C32: lowering `?e` sets the in-opt flag only while e is lowered and
\* restores its previous value: after every statement the flag is clear,
\* and every field or index access is lowered to the optional opcode
\* exactly when it stands inside a `?` expression, also in a statement
\* that follows one with a `?` expression.
C32_OptFlagRestored ==
  /\ em.fn.is_in_opt_expr = FALSE
  /\ \A i \in 1..Len(em.flags) : em.flags[i] = FALSE
  /\ [i \in 1..Len(em.fn.instrs) |-> em.fn.instrs[i].op]
       = LoweredStmts(em.stmts)

C32_Witness ==
  /\ Len(em.stmts) = 2
  /\ em.stmts[1] = Opt(GetField(Var("v"), "a"))
  /\ em.stmts[2] = GetField(Var("v"), "a")
  /\ em.fn.instrs[2].op = "LoadFieldOpt"
  /\ em.fn.instrs[5].op = "LoadField"

-----------------------------------------------------------------------------
(* Integers of the host (conv.rs, impl_int): IntoHebi casts to i32,        *)
(* FromHebi casts the i32 of the Value to the target type.  Widths are     *)
(* scaled with those of the list model: 8 and 16 bits are narrower than    *)
(* the i32 of a Value, 64 and 128 bits wider.                              *)

IntTypes ==
  {"i8", "i16", "i32", "i64", "i128", "isize",
   "u8", "u16", "u32", "u64", "u128", "usize"}
IsSigned(T) == T \in {"i8", "i16", "i32", "i64", "i128", "isize"}
Bits(T) ==
  CASE T \in {"i8", "u8"} -> I32Bits - 3
    [] T \in {"i16", "u16"} -> I32Bits - 2
    [] T \in {"i32", "u32"} -> I32Bits
    [] T \in {"i64", "u64", "isize", "usize"} -> UsizeBits
    [] OTHER -> UsizeBits + 1
MinOf(T) == IF IsSigned(T) THEN -(2 ^ (Bits(T) - 1)) ELSE 0
MaxOf(T) == IF IsSigned(T) THEN 2 ^ (Bits(T) - 1) - 1 ELSE 2 ^ Bits(T) - 1

\* `v as T` between integer types: the low bits of v, read as a T
as_int(v, bits, signed) ==
  LET m == v % (2 ^ bits)
  IN IF signed /\ m >= 2 ^ (bits - 1) THEN m - 2 ^ bits ELSE m

\* IntoHebi::into_hebi for T: Value::bind(value as i32)
into_hebi(T, x) == IntV(as_int(x, I32Bits, TRUE))

\* FromHebi::from_hebi for T: to_int(), then `value as T`
from_hebi(T, value) ==
  IF value.t = "int"
  THEN [res |-> "ok", back |-> as_int(value.a, Bits(T), IsSigned(T))]
  ELSE [res |-> "value is not an int", back |-> 0]

\* the script values read on their own
ScriptValues == {IntV(I32Min), IntV(-1), IntV(0), IntV(I32Max), None}

InitConv ==
  /\ call_frames = <<>>
  /\ stack = <<>>
  /\ stack_base = 0
  /\ acc = None
  /\ pc = 0
  /\ registry = [p \in Paths |-> 0]
  /\ next_id = 1
  /\ visited = {}
  /\ heap = <<>>
  /\ native = <<>>
  /\ status = "idle"
  /\ code = <<>>
  /\ root_runs = [i \in 1..MaxModuleId |-> 0]
  /\ program = "call"
  /\ functions = <<>>
  /\ globals = [n \in GlobalNames |-> Absent]
  /\ module_vars = [i \in 1..MaxModuleId |-> NewModuleVars]
  /\ em = <<>>
  /\ lst = <<>>
  /\ indent = <<>>
  /\ ev = Ev("new", None, <<>>, 0, "")
  /\ \E T \in IntTypes : \E x \in MinOf(T)..MaxOf(T) :
       conv = [T |-> T, x |-> x, value |-> None, res |-> "", back |-> 0,
               op |-> "new"]

Converting ==
  /\ conv # <<>>
  /\ UNCHANGED <<call_frames, stack, stack_base, acc, pc, registry, next_id,
                 visited, heap, native, status, code, root_runs, program,
                 functions, globals, module_vars, em, lst, indent, ev>>

\* T::into_hebi(vm, x)
conv_into_hebi ==
  /\ Converting
  /\ conv.op = "new"
  /\ conv' = [conv EXCEPT !.op = "into", !.value = into_hebi(conv.T, conv.x)]

\* T::from_hebi(vm, value) of the value x was turned into
conv_from_hebi ==
  /\ Converting
  /\ conv.op = "into"
  /\ LET r == from_hebi(conv.T, conv.value)
     IN conv' = [conv EXCEPT !.op = "back", !.res = r.res, !.back = r.back]

\* T::from_hebi(vm, value) of a value of the script
conv_read ==
  /\ Converting
  /\ conv.op = "new"
  /\ conv.x = 0
  /\ \E value \in ScriptValues :
       LET r == from_hebi(conv.T, value)
       IN conv' = [conv EXCEPT !.op = "read", !.value = value,
                               !.res = r.res, !.back = r.back]

NextConv ==
  \/ conv_into_hebi
  \/ conv_from_hebi
  \/ conv_read

SpecConv == InitConv /\ [][NextConv]_vars

\* C39: for every integer type T and every x of T, into_hebi followed by
\* from_hebi for T returns x or an error; an x outside the range of i32 is
\* not turned into a Value holding a different number; and a negative int
\* of the script read as an unsigned T is an error, not a wrapped number.
C39_IntRoundTrip ==
  conv # <<>> =>
    /\ conv.op = "back" => (conv.res = "ok" => conv.back = conv.x)
    /\ conv.op \in {"into", "back"} =>
         (conv.value.t = "int" /\ conv.value.a = conv.x)
    /\ (conv.op = "read" /\ conv.value.t = "int" /\ conv.value.a < 0
          /\ ~IsSigned(conv.T)) => conv.res # "ok"

-----------------------------------------------------------------------------
(* The parser's IndentStack (syntax/src/parser/state.rs).  Its u64 has the *)
(* scaled width of the 64-bit integers above; whether an overflowing `+=`  *)
(* or `-=` panics or wraps is an input, as for the list index.             *)

MaxIndents == 3

Indents == {0, 1, 2, 2 ^ (UsizeBits - 1), UsizeMod - 1}

RECURSIVE Sum(_)
Sum(s) == IF s = <<>> THEN 0 ELSE Head(s) + Sum(Tail(s))

\* IndentStack::new; `before` is history: the level at each push
IndentStack_new(checks) ==
  [stack |-> <<0>>, level |-> 0, ignore |-> FALSE, checks |-> checks,
   state |-> "ok", before |-> <<0>>, op |-> "new"]

is_indent_eq(this, n) == this.level = n
is_indent_gt(this, n) == this.level < n
is_indent_lt(this, n) == this.level > n

\* self.stack.push(n); self.level += n
push_indent(this, n) ==
  LET pushed == [this EXCEPT !.stack = Append(@, n),
                             !.before = Append(@, this.level),
                             !.op = "push"]
  IN IF this.level + n >= UsizeMod /\ this.checks = "debug"
     THEN [pushed EXCEPT !.state = "overflow"]
     ELSE [pushed EXCEPT !.level = (this.level + n) % UsizeMod]

\* let n = self.stack.pop().unwrap(); self.level -= n
pop_indent(this) ==
  IF this.stack = <<>>
  THEN [this EXCEPT !.state = "empty", !.op = "pop"]
  ELSE LET n == Last(this.stack)
           popped == [this EXCEPT !.stack = Front(@), !.before = Front(@),
                                  !.op = "pop"]
       IN IF this.level < n /\ this.checks = "debug"
          THEN [popped EXCEPT !.state = "overflow"]
          ELSE [popped EXCEPT !.level = (this.level - n) % UsizeMod]

InitIndent ==
  /\ call_frames = <<>>
  /\ stack = <<>>
  /\ stack_base = 0
  /\ acc = None
  /\ pc = 0
  /\ registry = [p \in Paths |-> 0]
  /\ next_id = 1
  /\ visited = {}
  /\ heap = <<>>
  /\ native = <<>>
  /\ status = "idle"
  /\ code = <<>>
  /\ root_runs = [i \in 1..MaxModuleId |-> 0]
  /\ program = "call"
  /\ functions = <<>>
  /\ globals = [n \in GlobalNames |-> Absent]
  /\ module_vars = [i \in 1..MaxModuleId |-> NewModuleVars]
  /\ em = <<>>
  /\ lst = <<>>
  /\ conv = <<>>
  /\ ev = Ev("new", None, <<>>, 0, "")
  /\ \E checks \in Builds : indent = IndentStack_new(checks)

Indenting ==
  /\ indent # <<>>
  /\ indent.state = "ok"
  /\ UNCHANGED <<call_frames, stack, stack_base, acc, pc, registry, next_id,
                 visited, heap, native, status, code, root_runs, program,
                 functions, globals, module_vars, em, lst, conv, ev>>

indent_push ==
  /\ Indenting
  /\ Len(indent.stack) <= MaxIndents
  /\ \E n \in Indents : indent' = push_indent(indent, n)

indent_pop ==
  /\ Indenting
  /\ indent' = pop_indent(indent)

\* IndentStack::ignore
indent_ignore ==
  /\ Indenting
  /\ \E v \in BOOLEAN :
       /\ v # indent.ignore
       /\ indent' = [indent EXCEPT !.ignore = v, !.op = "ignore"]

NextIndent ==
  \/ indent_push
  \/ indent_pop
  \/ indent_ignore

SpecIndent == InitIndent /\ [][NextIndent]_vars

\* C40: after any pushes and pops, none of them a pop of the empty stack,
\* level is the sum of the entries of the stack; a pop that follows a push
\* brings back the level the push started from; and for every n exactly
\* one of is_indent_eq(n), is_indent_gt(n), is_indent_lt(n) holds.
OneOf(a, b, c) ==
  (a /\ ~b /\ ~c) \/ (~a /\ b /\ ~c) \/ (~a /\ ~b /\ c)
====
